---- MODULE Spec2Model ----
(***************************************************************************)
(* Model of the relicta gomod plugin (src/plugin.go): the module-path and  *)
(* proxy-URL validators, the config resolver, and the Execute / Validate   *)
(* operations with the single outbound HTTP exchange of triggerProxyIndex. *)
(*                                                                         *)
(* A Go string is a sequence of one-character strings.  A Go error is a    *)
(* sequence of message fragments (its text); the nil error is Nil.  The    *)
(* text of a message or error string is the concatenation of its           *)
(* fragments, so the empty Go string is the empty sequence.                *)
(***************************************************************************)
EXTENDS Integers, Sequences, FiniteSets, TLC

(***************************************************************************)
(* Characters and the strings package.                                     *)
(***************************************************************************)
Lower == {"a", "b", "c", "d", "e", "f", "g", "h", "i", "j", "k", "l", "m",
          "n", "o", "p", "q", "r", "s", "t", "u", "v", "w", "x", "y", "z"}
Upper == {"A", "B", "C", "D", "E", "F", "G", "H", "I", "J", "K", "L", "M",
          "N", "O", "P", "Q", "R", "S", "T", "U", "V", "W", "X", "Y", "Z"}
Digit == {"0", "1", "2", "3", "4", "5", "6", "7", "8", "9"}

\* the character class [a-zA-Z0-9]
IsAlnum(c) == c \in Lower \cup Upper \cup Digit

\* the character class [a-zA-Z0-9._-]
IsPathChar(c) == IsAlnum(c) \/ c \in {".", "_", "-"}

\* the nil error
Nil == <<"nil">>

\* fmt.Errorf / fmt.Sprintf of a constant text
Text(t) == <<t>>

\* strings.HasPrefix(s, p)
HasPrefix(s, p) == Len(s) >= Len(p) /\ SubSeq(s, 1, Len(p)) = p

\* strings.HasSuffix(s, p)
HasSuffix(s, p) == Len(s) >= Len(p) /\ SubSeq(s, Len(s) - Len(p) + 1, Len(s)) = p

\* s[i-1:] of Go starts with p
MatchAt(s, i, p) == i >= 1 /\ i + Len(p) - 1 <= Len(s) /\ SubSeq(s, i, i + Len(p) - 1) = p

\* strings.Contains(s, p)
Contains(s, p) == \E i \in 1..(Len(s) - Len(p) + 1) : SubSeq(s, i, i + Len(p) - 1) = p

\* strings.Repeat(c, n) for a one-character string c
Repeat(c, n) == [i \in 1..n |-> c]

(***************************************************************************)
(* Module path validation (plugin.go 66-107).                              *)
(*                                                                         *)
(* The two regular expressions are run as the position automata of their   *)
(* text.  The positions are                                                *)
(*   1  ^                     before [a-zA-Z0-9]                           *)
(*   2  [a-zA-Z0-9._-]*       before \.                                    *)
(*   3  \.                    before the first of [a-zA-Z0-9._-]+          *)
(*   4  [a-zA-Z0-9._-]+       inside it, before /                          *)
(*   5  /                     before the first of [a-zA-Z0-9._-]+          *)
(*   6  [a-zA-Z0-9._-]+       inside it; $ accepts here                    *)
(* modulePathPattern closes the group (/[a-zA-Z0-9._-]+) with +, so it may *)
(* go from 6 back to 5 on '/'; simpleModulePattern has no repetition.      *)
(***************************************************************************)
\* a set of positions is a tuple of six booleans
PatternStart == <<TRUE, FALSE, FALSE, FALSE, FALSE, FALSE>>

PatternDead == <<FALSE, FALSE, FALSE, FALSE, FALSE, FALSE>>

\* the positions reached from the set S by reading character c
PatternStep(S, c, repeatGroup) ==
    << FALSE,
       (S[1] /\ IsAlnum(c)) \/ (S[2] /\ IsPathChar(c)),
       S[2] /\ c = ".",
       (S[3] \/ S[4]) /\ IsPathChar(c),
       (S[4] /\ c = "/") \/ (repeatGroup /\ S[6] /\ c = "/"),
       (S[5] \/ S[6]) /\ IsPathChar(c) >>

\* the positions reached from S by reading s[lo..hi], halving the range
RECURSIVE PatternRun(_, _, _, _, _)
PatternRun(s, lo, hi, S, repeatGroup) ==
    IF S = PatternDead \/ lo > hi THEN S
    ELSE IF lo = hi THEN PatternStep(S, s[lo], repeatGroup)
    ELSE PatternRun(s, (lo + hi) \div 2 + 1, hi,
                    PatternRun(s, lo, (lo + hi) \div 2, S, repeatGroup), repeatGroup)

\* modulePathPattern compiled without the + on its group
modulePathPattern_SingleSegment(s) == PatternRun(s, 1, Len(s), PatternStart, FALSE)[6]

\* modulePathPattern.MatchString(s)
modulePathPattern(s) == PatternRun(s, 1, Len(s), PatternStart, TRUE)[6]

\* simpleModulePattern.MatchString(s)
simpleModulePattern(s) == PatternRun(s, 1, Len(s), PatternStart, FALSE)[6]

MaxModulePathLen == 500

ErrPathEmpty    == "module path cannot be empty"
ErrPathTooLong  == "module path too long (max 500 characters)"
ErrPathDotDot   == "module path cannot contain '..'"
ErrPathLeading  == "module path cannot start with '/'"
ErrPathDblSlash == "module path cannot contain '//'"
ErrPathFormat   == "invalid module path format: must be like 'github.com/user/repo'"

\* validateModulePath looking for '..' before it looks at the length
validateModulePath_TraversalFirst(modulePath) ==
    IF modulePath = <<>> THEN Text(ErrPathEmpty)
    ELSE IF Contains(modulePath, <<".", ".">>) THEN Text(ErrPathDotDot)
    ELSE IF Len(modulePath) > MaxModulePathLen THEN Text(ErrPathTooLong)
    ELSE IF HasPrefix(modulePath, <<"/">>) THEN Text(ErrPathLeading)
    ELSE IF Contains(modulePath, <<"/", "/">>) THEN Text(ErrPathDblSlash)
    ELSE IF ~modulePathPattern(modulePath) /\ ~simpleModulePattern(modulePath)
         THEN Text(ErrPathFormat)
    ELSE Nil

\* validateModulePath without the path traversal check
validateModulePath_NoTraversalCheck(modulePath) ==
    IF modulePath = <<>> THEN Text(ErrPathEmpty)
    ELSE IF Len(modulePath) > MaxModulePathLen THEN Text(ErrPathTooLong)
    ELSE IF HasPrefix(modulePath, <<"/">>) THEN Text(ErrPathLeading)
    ELSE IF Contains(modulePath, <<"/", "/">>) THEN Text(ErrPathDblSlash)
    ELSE IF ~modulePathPattern(modulePath) /\ ~simpleModulePattern(modulePath)
         THEN Text(ErrPathFormat)
    ELSE Nil

validateModulePath(modulePath) ==
    IF modulePath = <<>> THEN Text(ErrPathEmpty)
    ELSE IF Len(modulePath) > MaxModulePathLen THEN Text(ErrPathTooLong)
    ELSE IF Contains(modulePath, <<".", ".">>) THEN Text(ErrPathDotDot)
    ELSE IF HasPrefix(modulePath, <<"/">>) THEN Text(ErrPathLeading)
    ELSE IF Contains(modulePath, <<"/", "/">>) THEN Text(ErrPathDblSlash)
    ELSE IF ~modulePathPattern(modulePath) /\ ~simpleModulePattern(modulePath)
         THEN Text(ErrPathFormat)
    ELSE Nil

(***************************************************************************)
(* net/url as used by validateProxyURL and triggerProxyIndex.              *)
(***************************************************************************)
HexDigit == Digit \cup {"a", "b", "c", "d", "e", "f", "A", "B", "C", "D", "E", "F"}

\* ASCII control characters that can be written in a string
ControlChar == {"\t", "\n", "\r"}

\* strings.Index(s, c) for a one-character c, counted from 1; 0 when absent
Index(s, c) ==
    LET I == {i \in 1..Len(s) : s[i] = c}
    IN  IF I = {} THEN 0 ELSE CHOOSE i \in I : \A j \in I : i <= j

\* strings.LastIndex(s, c) for a one-character c, counted from 1; 0 when absent
LastIndex(s, c) ==
    LET I == {i \in 1..Len(s) : s[i] = c}
    IN  IF I = {} THEN 0 ELSE CHOOSE i \in I : \A j \in I : i >= j

\* s[from:] of Go, from counted from 1
From(s, from) == SubSeq(s, from, Len(s))

\* strings.TrimSuffix(s, p)
TrimSuffix(s, p) == IF HasSuffix(s, p) THEN SubSeq(s, 1, Len(s) - Len(p)) ELSE s

\* the escapes of s are well formed: every '%' is followed by two hex digits
\* (url.unescape returns an EscapeError otherwise)
EscapesOK(s) ==
    \A i \in 1..Len(s) :
        s[i] = "%" => i + 2 <= Len(s) /\ s[i + 1] \in HexDigit /\ s[i + 2] \in HexDigit

\* url.validOptionalPort(port)
validOptionalPort(port) ==
    \/ port = <<>>
    \/ port[1] = ":" /\ \A i \in 2..Len(port) : port[i] \in Digit

\* the characters url.shouldEscape(c, encodeHost) lets through unescaped
HostChar(c) ==
    \/ IsAlnum(c)
    \/ c \in {"!", "$", "&", "'", "(", ")", "*", "+", ",", ";", "=", ":", "[", "]", "<", ">", "\""}
    \/ c \in {"-", "_", ".", "~"}

\* url.unescape(host, encodeHost) succeeds: '%' only as a well-formed escape
\* of a byte >= 0x80 or as %25, no other character that must be escaped
HostOK(host) ==
    /\ EscapesOK(host)
    /\ \A i \in 1..Len(host) :
          IF host[i] = "%"
          THEN i + 2 <= Len(host) =>
                  \/ host[i + 1] \notin {"0", "1", "2", "3", "4", "5", "6", "7"}
                  \/ MatchAt(host, i, <<"%", "2", "5">>)
          ELSE HostChar(host[i])

\* url.parseHost(host) succeeds
parseHostOK(host) ==
    /\ IF HasPrefix(host, <<"[">>)
       THEN /\ LastIndex(host, "]") # 0
            /\ validOptionalPort(From(host, LastIndex(host, "]") + 1))
       ELSE LastIndex(host, ":") # 0 => validOptionalPort(From(host, LastIndex(host, ":")))
    /\ HostOK(host)

\* url.validUserinfo(s)
validUserinfo(s) ==
    \A i \in 1..Len(s) :
        \/ IsAlnum(s[i])
        \/ s[i] \in {"-", ".", "_", ":", "~", "!", "$", "&", "'", "(", ")", "*", "+", ",", ";", "=", "%", "@"}

\* url.parseAuthority(authority): [ok, host]
parseAuthority(authority) ==
    LET i    == LastIndex(authority, "@")
        host == From(authority, i + 1)
        user == SubSeq(authority, 1, i - 1)
    IN  IF ~parseHostOK(host) THEN [ok |-> FALSE, host |-> <<>>]
        ELSE IF i = 0 THEN [ok |-> TRUE, host |-> host]
        ELSE IF ~validUserinfo(user) \/ ~EscapesOK(user) THEN [ok |-> FALSE, host |-> <<>>]
        ELSE [ok |-> TRUE, host |-> host]

\* url.Parse(rawURL) for a rawURL that starts with "https://", the only
\* strings validateProxyURL hands to it: the scheme is https and what follows
\* it starts with "//".  The result is [ok, host] with host the Host field.
urlParse(rawURL) ==
    LET hash  == Index(rawURL, "#")
        u     == IF hash = 0 THEN rawURL ELSE SubSeq(rawURL, 1, hash - 1)
        frag  == IF hash = 0 THEN <<>> ELSE From(rawURL, hash + 1)
        rest0 == From(u, 7)
        qm    == Index(rest0, "?")
        rest  == IF qm = 0 THEN rest0 ELSE SubSeq(rest0, 1, qm - 1)
        auth0 == From(rest, 3)
        slash == Index(auth0, "/")
        auth  == IF slash = 0 THEN auth0 ELSE SubSeq(auth0, 1, slash - 1)
        path  == IF slash = 0 THEN <<>> ELSE From(auth0, slash)
        pa    == parseAuthority(auth)
    IN  IF \E i \in 1..Len(u) : u[i] \in ControlChar THEN [ok |-> FALSE, host |-> <<>>]
        ELSE IF ~pa.ok THEN pa
        ELSE IF ~EscapesOK(path) \/ ~EscapesOK(frag) THEN [ok |-> FALSE, host |-> <<>>]
        ELSE pa

\* (*URL).Hostname(): the host without a valid port and without brackets
Hostname(host) ==
    LET colon == LastIndex(host, ":")
        h     == IF colon # 0 /\ validOptionalPort(From(host, colon))
                 THEN SubSeq(host, 1, colon - 1) ELSE host
    IN  IF HasPrefix(h, <<"[">>) /\ HasSuffix(h, <<"]">>)
        THEN SubSeq(h, 2, Len(h) - 1) ELSE h

\* strings.ToLower(s) for the letters of Upper
LowerOf == [c \in Upper |->
    CASE c = "A" -> "a" [] c = "B" -> "b" [] c = "C" -> "c" [] c = "D" -> "d"
      [] c = "E" -> "e" [] c = "F" -> "f" [] c = "G" -> "g" [] c = "H" -> "h"
      [] c = "I" -> "i" [] c = "J" -> "j" [] c = "K" -> "k" [] c = "L" -> "l"
      [] c = "M" -> "m" [] c = "N" -> "n" [] c = "O" -> "o" [] c = "P" -> "p"
      [] c = "Q" -> "q" [] c = "R" -> "r" [] c = "S" -> "s" [] c = "T" -> "t"
      [] c = "U" -> "u" [] c = "V" -> "v" [] c = "W" -> "w" [] c = "X" -> "x"
      [] c = "Y" -> "y" [] c = "Z" -> "z"]

ToLower(s) == [i \in 1..Len(s) |-> IF s[i] \in Upper THEN LowerOf[s[i]] ELSE s[i]]

\* the escape url.PathEscape writes for a character it must escape
PathEscapeOf(c) ==
    CASE c = "/" -> <<"%", "2", "F">>
      [] c = "?" -> <<"%", "3", "F">>
      [] c = ";" -> <<"%", "3", "B">>
      [] c = "," -> <<"%", "2", "C">>
      [] c = "%" -> <<"%", "2", "5">>
      [] c = "#" -> <<"%", "2", "3">>
      [] c = " " -> <<"%", "2", "0">>
      [] OTHER   -> <<"%", "0", "0">>

\* url.shouldEscape(c, encodePathSegment)
shouldEscapePathSegment(c) ==
    /\ ~IsAlnum(c)
    /\ c \notin {"-", "_", ".", "~"}
    /\ c \notin {"$", "&", "+", ":", "=", "@"}

\* url.PathEscape(s[lo..hi]), halving the range
RECURSIVE PathEscapeRange(_, _, _)
PathEscapeRange(s, lo, hi) ==
    IF lo > hi THEN <<>>
    ELSE IF lo = hi
         THEN IF shouldEscapePathSegment(s[lo]) THEN PathEscapeOf(s[lo]) ELSE <<s[lo]>>
    ELSE PathEscapeRange(s, lo, (lo + hi) \div 2) \o PathEscapeRange(s, (lo + hi) \div 2 + 1, hi)

PathEscape(s) == PathEscapeRange(s, 1, Len(s))

\* strings.ReplaceAll(s, "%2F", "/") over s[lo..hi], halving the range: an
\* occurrence cannot overlap another, so each is replaced where it starts
RECURSIVE RestoreSlashRange(_, _, _)
RestoreSlashRange(s, lo, hi) ==
    IF lo > hi THEN <<>>
    ELSE IF lo = hi
         THEN IF MatchAt(s, lo, <<"%", "2", "F">>) THEN <<"/">>
              ELSE IF MatchAt(s, lo - 1, <<"%", "2", "F">>) THEN <<>>
              ELSE IF MatchAt(s, lo - 2, <<"%", "2", "F">>) THEN <<>>
              ELSE <<s[lo]>>
    ELSE RestoreSlashRange(s, lo, (lo + hi) \div 2) \o RestoreSlashRange(s, (lo + hi) \div 2 + 1, hi)

RestoreSlash(s) == RestoreSlashRange(s, 1, Len(s))

(***************************************************************************)
(* Proxy URL validation (plugin.go 109-143).                               *)
(***************************************************************************)
HttpsPrefix == <<"h", "t", "t", "p", "s", ":", "/", "/">>

ErrUrlHTTPS     == "proxy URL must use HTTPS"
ErrUrlParse     == "invalid proxy URL: "
ErrUrlHost      == "proxy URL must have a valid host"
ErrUrlLocalhost == "proxy URL cannot be localhost"
ErrUrlPrivate   == "proxy URL cannot point to private network"

\* validateProxyURL comparing the host as written, without strings.ToLower
validateProxyURL_CaseSensitive(proxyURL) ==
    IF ~HasPrefix(proxyURL, HttpsPrefix) THEN Text(ErrUrlHTTPS)
    ELSE LET parsed == urlParse(proxyURL)
             host   == Hostname(parsed.host)
         IN  IF ~parsed.ok THEN Text(ErrUrlParse)
             ELSE IF parsed.host = <<>> THEN Text(ErrUrlHost)
             ELSE IF \/ host = <<"l", "o", "c", "a", "l", "h", "o", "s", "t">>
                     \/ host = <<"1", "2", "7", ".", "0", ".", "0", ".", "1">>
                     \/ host = <<":", ":", "1">>
                  THEN Text(ErrUrlLocalhost)
             ELSE IF \/ HasPrefix(host, <<"1", "0", ".">>)
                     \/ HasPrefix(host, <<"1", "9", "2", ".", "1", "6", "8", ".">>)
                     \/ HasPrefix(host, <<"1", "7", "2", ".">>)
                     \/ HasSuffix(host, <<".", "l", "o", "c", "a", "l">>)
                     \/ HasSuffix(host, <<".", "i", "n", "t", "e", "r", "n", "a", "l">>)
                  THEN Text(ErrUrlPrivate)
             ELSE Nil

validateProxyURL(proxyURL) ==
    IF ~HasPrefix(proxyURL, HttpsPrefix) THEN Text(ErrUrlHTTPS)
    ELSE LET parsed == urlParse(proxyURL)
             host   == ToLower(Hostname(parsed.host))
         IN  IF ~parsed.ok THEN Text(ErrUrlParse)
             ELSE IF parsed.host = <<>> THEN Text(ErrUrlHost)
             ELSE IF \/ host = <<"l", "o", "c", "a", "l", "h", "o", "s", "t">>
                     \/ host = <<"1", "2", "7", ".", "0", ".", "0", ".", "1">>
                     \/ host = <<":", ":", "1">>
                  THEN Text(ErrUrlLocalhost)
             ELSE IF \/ HasPrefix(host, <<"1", "0", ".">>)
                     \/ HasPrefix(host, <<"1", "9", "2", ".", "1", "6", "8", ".">>)
                     \/ HasPrefix(host, <<"1", "7", "2", ".">>)
                     \/ HasSuffix(host, <<".", "l", "o", "c", "a", "l">>)
                     \/ HasSuffix(host, <<".", "i", "n", "t", "e", "r", "n", "a", "l">>)
                  THEN Text(ErrUrlPrivate)
             ELSE Nil

(***************************************************************************)
(* Raw configuration values (map[string]any) and helpers.ConfigParser.     *)
(* A value carries its dynamic type t; Absent is a key that is not in the  *)
(* map.  A nil map reads like the empty map.  The parser is the one of     *)
(* relicta-plugin-sdk, whose source is not part of the plugin.  GetBool    *)
(* and GetInt are modelled as TestParseConfig shows them.  GetString is    *)
(* modelled from the resolution rules of the specification (section 4.1):  *)
(* the value under the key if it is present and a string, otherwise the    *)
(* environment variable, otherwise the default; this is the reading under  *)
(* which the test for the empty string at plugin.go 342 has something to   *)
(* do.                                                                     *)
(***************************************************************************)
Absent     == [t |-> "absent", s |-> <<>>, b |-> FALSE, n |-> 0]
StrVal(s)  == [t |-> "string", s |-> s, b |-> FALSE, n |-> 0]
BoolVal(b) == [t |-> "bool", s |-> <<>>, b |-> b, n |-> 0]
IntVal(n)  == [t |-> "int", s |-> <<>>, b |-> FALSE, n |-> n]

\* a float64; n counts tenths, so FloatVal(-5) is -0.5
FloatVal(n) == [t |-> "float64", s |-> <<>>, b |-> FALSE, n |-> n]

NilConfig == [nil |-> TRUE, module_path |-> Absent, proxy_url |-> Absent,
              private |-> Absent, timeout |-> Absent]

\* parser.GetString(key, envVar, defaultVal): v is raw[key], envVal the value
\* of the environment variable (empty when envVar is "" or the variable unset)
GetString(v, envVal, defaultVal) ==
    IF v.t = "string" THEN v.s
    ELSE IF envVal # <<>> THEN envVal
    ELSE defaultVal

\* parser.GetBool(key, defaultVal)
GetBool(v, defaultVal) ==
    IF v.t = "bool" THEN v.b
    ELSE IF v.t = "string" /\ v.s = <<"t", "r", "u", "e">> THEN TRUE
    ELSE IF v.t = "string" /\ v.s = <<"f", "a", "l", "s", "e">> THEN FALSE
    ELSE defaultVal

\* parser.GetInt(key, defaultVal); a float64 is cut to its integer part
GetInt(v, defaultVal) ==
    IF v.t = "int" THEN v.n
    ELSE IF v.t = "float64" THEN (IF v.n >= 0 THEN v.n \div 10 ELSE -((-v.n) \div 10))
    ELSE defaultVal

defaultProxyURL == HttpsPrefix \o <<"p", "r", "o", "x", "y", ".", "g", "o", "l", "a", "n", "g", ".", "o", "r", "g">>

defaultTimeout == 30

\* parseConfig asking the environment before the config
parseConfig_EnvFirst(raw, envModulePath) ==
    LET proxyURL == GetString(raw.proxy_url, <<>>, defaultProxyURL)
        timeout  == GetInt(raw.timeout, defaultTimeout)
    IN  [ModulePath |-> IF envModulePath # <<>> THEN envModulePath
                        ELSE GetString(raw.module_path, <<>>, <<>>),
         ProxyURL   |-> IF proxyURL = <<>> THEN defaultProxyURL ELSE proxyURL,
         Private    |-> GetBool(raw.private, FALSE),
         Timeout    |-> IF timeout <= 0 THEN defaultTimeout ELSE timeout]

\* parseConfig keeping the timeout it read, whatever its sign
parseConfig_NoTimeoutFloor(raw, envModulePath) ==
    LET proxyURL == GetString(raw.proxy_url, <<>>, defaultProxyURL)
        timeout  == GetInt(raw.timeout, defaultTimeout)
    IN  [ModulePath |-> GetString(raw.module_path, envModulePath, <<>>),
         ProxyURL   |-> IF proxyURL = <<>> THEN defaultProxyURL ELSE proxyURL,
         Private    |-> GetBool(raw.private, FALSE),
         Timeout    |-> timeout]

\* parseConfig leaving an empty proxy_url empty
parseConfig_NoProxyDefault(raw, envModulePath) ==
    LET proxyURL == GetString(raw.proxy_url, <<>>, defaultProxyURL)
        timeout  == GetInt(raw.timeout, defaultTimeout)
    IN  [ModulePath |-> GetString(raw.module_path, envModulePath, <<>>),
         ProxyURL   |-> proxyURL,
         Private    |-> GetBool(raw.private, FALSE),
         Timeout    |-> IF timeout <= 0 THEN defaultTimeout ELSE timeout]

\* parseConfig(raw) with GO_MODULE_PATH = envModulePath
parseConfig(raw, envModulePath) ==
    LET proxyURL == GetString(raw.proxy_url, <<>>, defaultProxyURL)
        timeout  == GetInt(raw.timeout, defaultTimeout)
    IN  [ModulePath |-> GetString(raw.module_path, envModulePath, <<>>),
         ProxyURL   |-> IF proxyURL = <<>> THEN defaultProxyURL ELSE proxyURL,
         Private    |-> GetBool(raw.private, FALSE),
         Timeout    |-> IF timeout <= 0 THEN defaultTimeout ELSE timeout]

(***************************************************************************)
(* Results.                                                                *)
(***************************************************************************)
NoOutputs == [k \in {} |-> <<>>]

\* the value of a variable that holds nothing yet
None == [none |-> TRUE]

\* &plugin.ExecuteResponse{...}; fields left out are zero
Response(success, message, error, outputs) ==
    [Success |-> success, Message |-> message, Error |-> error, Outputs |-> outputs]

HookPostPublish == "post-publish"

\* the switch with > 400 in its default case
classify_Above400(status, body) ==
    IF status = 200 THEN Nil
    ELSE IF status = 404
         THEN Text("module or version not found (404): ") \o body
                  \o Text(" - the tag may need time to propagate")
    ELSE IF status = 410
         THEN Text("version does not exist or is unavailable (410): ") \o body
    ELSE IF status > 400
         THEN Text("proxy returned error status ") \o Text(ToString(status)) \o Text(": ") \o body
    ELSE Nil

\* the status switch refusing a 200 answer without a body
classify_EmptyBodyFails(status, body) ==
    IF status = 200 THEN (IF body = <<>> THEN Text("empty response") ELSE Nil)
    ELSE IF status = 404
         THEN Text("module or version not found (404): ") \o body
                  \o Text(" - the tag may need time to propagate")
    ELSE IF status = 410
         THEN Text("version does not exist or is unavailable (410): ") \o body
    ELSE IF status >= 400
         THEN Text("proxy returned error status ") \o Text(ToString(status)) \o Text(": ") \o body
    ELSE Nil

\* the switch on resp.StatusCode of triggerProxyIndex: the error returned
classify(status, body) ==
    IF status = 200 THEN Nil
    ELSE IF status = 404
         THEN Text("module or version not found (404): ") \o body
                  \o Text(" - the tag may need time to propagate")
    ELSE IF status = 410
         THEN Text("version does not exist or is unavailable (410): ") \o body
    ELSE IF status >= 400
         THEN Text("proxy returned error status ") \o Text(ToString(status)) \o Text(": ") \o body
    ELSE Nil

\* the request URL with the module path left as url.PathEscape wrote it
proxyRequestURL_EncodedSlash(c, v) ==
    TrimSuffix(c.ProxyURL, <<"/">>) \o <<"/">> \o PathEscape(c.ModulePath)
        \o <<"/", "@", "v", "/">> \o v \o <<".", "i", "n", "f", "o">>

\* the request URL composed without the "/" after the proxy URL
proxyRequestURL_NoSeparator(c, v) ==
    TrimSuffix(c.ProxyURL, <<"/">>) \o RestoreSlash(PathEscape(c.ModulePath))
        \o <<"/", "@", "v", "/">> \o v \o <<".", "i", "n", "f", "o">>

\* the request URL triggerProxyIndex composes
proxyRequestURL(c, v) ==
    TrimSuffix(c.ProxyURL, <<"/">>) \o <<"/">> \o RestoreSlash(PathEscape(c.ModulePath))
        \o <<"/", "@", "v", "/">> \o v \o <<".", "i", "n", "f", "o">>

(***************************************************************************)
(* Inputs.                                                                 *)
(***************************************************************************)
Hooks == {HookPostPublish, "pre-publish", "on-success"}

GoodPath == <<"a", ".", "b", "/", "c">>

ModulePathValues ==
    { Absent, IntVal(7), StrVal(<<>>), StrVal(GoodPath),
      StrVal(<<"a", "-", "1", ".", "B", "/", "c", "_", "d", "/", "e">>),
      StrVal(<<".", ".", "/", "a", ".", "b", "/", "c">>),
      StrVal(<<"/", "a", ".", "b", "/", "c">>),
      StrVal(<<"a", ".", "b", "/", "/", "c">>),
      StrVal(<<"a", "/", "b">>),
      StrVal(<<"a", ".", "b", "/">> \o Repeat("a", MaxModulePathLen - 3)) }

EnvValues == { <<>>, <<"e", ".", "f", "/", "g">> }

ProxyURLValues ==
    { Absent, StrVal(<<>>),
      StrVal(HttpsPrefix \o <<"p", ".", "i", "o">>),
      StrVal(HttpsPrefix \o <<"p", ".", "i", "o", "/">>),
      StrVal(<<"h", "t", "t", "p", ":", "/", "/", "p", ".", "i", "o">>),
      StrVal(HttpsPrefix \o <<"1", "0", ".", "0", ".", "0", ".", "5">>) }

PrivateValues == { Absent, BoolVal(TRUE), BoolVal(FALSE), StrVal(<<"t", "r", "u", "e">>) }

TimeoutValues == { Absent, IntVal(10), IntVal(0) }

RawConfigs ==
    {NilConfig} \cup
    [nil : {FALSE}, module_path : ModulePathValues, proxy_url : ProxyURLValues,
     private : PrivateValues, timeout : TimeoutValues]

Versions == { <<>>, <<"1", ".", "0">>, <<"v", "1", ".", "0">>, <<"%">> }

TagNames == { <<>>, <<"v", "2">> }

StatusCodes == {100, 200, 201, 302, 399, 400, 404, 410, 500}

Bodies == { <<>>, <<"n", "o">> }

\* the causes with which client.Do fails
NetworkCauses == {"connection refused", "context canceled", "context deadline exceeded"}

(***************************************************************************)
(* State.                                                                  *)
(***************************************************************************)
VARIABLES
    pc,          \* where the invocation in progress stands; "idle" between invocations
    req,         \* the ExecuteRequest: Hook, Config, Version, TagName, DryRun
    env,         \* the value of GO_MODULE_PATH
    cfg,         \* the Config parseConfig resolved
    version,     \* the local variable version of postPublish
    requestURL,  \* the local variable proxyRequestURL of triggerProxyIndex
    sent,        \* the URLs of the requests handed to client.Do in this invocation
    resp,        \* what client.Do returned
    notifyErr,   \* the error triggerProxyIndex returned
    result,      \* the *plugin.ExecuteResponse returned
    goErr,       \* the error returned next to it
    vreq,        \* the config and environment of the last Validate call
    vresp,       \* the *plugin.ValidateResponse it returned
    vErr,        \* the error returned next to it
    vIn,         \* the string handed to a validator on its own
    vOut,        \* what the validator returned
    via,         \* the schemes of the requests the client has made inside the pending client.Do
    redirect,    \* the scheme of the target of a redirect answer the client has not judged yet
    client,      \* the HTTPClient getHTTPClient returned to this invocation
    httpClient,  \* the package variable httpClient (plugin.go 27)
    made         \* how many http.Client values this process has constructed

vars == <<pc, req, env, cfg, version, requestURL, sent, resp, notifyErr, result, goErr,
          vreq, vresp, vErr, vIn, vOut, via, redirect, client, httpClient, made>>

Init ==
    /\ pc = "idle"
    /\ req = None
    /\ env = <<>>
    /\ cfg = None
    /\ version = <<>>
    /\ requestURL = <<>>
    /\ sent = <<>>
    /\ resp = None
    /\ notifyErr = Nil
    /\ result = None
    /\ goErr = Nil
    /\ vreq = None
    /\ vresp = None
    /\ vErr = Nil
    /\ vIn = <<>>
    /\ vOut = [done |-> FALSE, err |-> Nil]
    /\ via = <<>>
    /\ redirect = ""
    /\ client = None
    /\ httpClient = None
    /\ made = 0

\* postPublish returns r, nil
Return(r) ==
    /\ pc' = "Done"
    /\ result' = r
    /\ goErr' = Nil

(***************************************************************************)
(* Execute (plugin.go 180-192) and the stages of postPublish (194-270).    *)
(***************************************************************************)
\* Execute handing every hook to postPublish
Execute_EveryHook(hook, config, envModulePath, ver, tag, dryRun) ==
    /\ pc = "idle"
    /\ req' = [Hook |-> hook, Config |-> config, Version |-> ver, TagName |-> tag, DryRun |-> dryRun]
    /\ env' = envModulePath
    /\ cfg' = parseConfig(config, envModulePath)
    /\ version' = <<>>
    /\ requestURL' = <<>>
    /\ sent' = <<>>
    /\ resp' = None
    /\ notifyErr' = Nil
    /\ via' = <<>>
    /\ redirect' = ""
    /\ client' = None
    /\ UNCHANGED <<vreq, vresp, vErr, vIn, vOut, httpClient, made>>
    /\ pc' = "ValidateModulePath"
    /\ result' = None
    /\ goErr' = Nil

Execute(hook, config, envModulePath, ver, tag, dryRun) ==
    /\ pc = "idle"
    /\ req' = [Hook |-> hook, Config |-> config, Version |-> ver, TagName |-> tag, DryRun |-> dryRun]
    /\ env' = envModulePath
    /\ cfg' = parseConfig(config, envModulePath)
    /\ version' = <<>>
    /\ requestURL' = <<>>
    /\ sent' = <<>>
    /\ resp' = None
    /\ notifyErr' = Nil
    /\ via' = <<>>
    /\ redirect' = ""
    /\ client' = None
    /\ UNCHANGED <<vreq, vresp, vErr, vIn, vOut, httpClient, made>>
    /\ IF hook = HookPostPublish
       THEN /\ pc' = "ValidateModulePath"
            /\ result' = None
            /\ goErr' = Nil
       ELSE Return(Response(TRUE, <<"Hook ", hook, " not handled">>, <<>>, NoOutputs))

\* postPublish reporting an invalid module path without the validator's text
ValidateModulePathStage_NoCause ==
    /\ pc = "ValidateModulePath"
    /\ LET err == validateModulePath(cfg.ModulePath)
       IN  IF err # Nil
           THEN Return(Response(FALSE, <<>>, Text("invalid module path"), NoOutputs))
           ELSE pc' = "Private" /\ UNCHANGED <<result, goErr>>
    /\ UNCHANGED <<req, env, cfg, version, requestURL, sent, resp, notifyErr, vreq, vresp, vErr, vIn, vOut, via, redirect, client, httpClient, made>>

\* postPublish looking at the private flag before the module path
ValidateModulePathStage_PrivateFirst ==
    /\ pc = "ValidateModulePath"
    /\ LET err == validateModulePath(cfg.ModulePath)
       IN  IF cfg.Private
           THEN Return(Response(TRUE, Text("Skipping proxy notification for private module"), <<>>,
                                [module_path |-> cfg.ModulePath, private |-> TRUE, skipped |-> TRUE]))
           ELSE IF err # Nil
           THEN Return(Response(FALSE, <<>>, Text("invalid module path: ") \o err, NoOutputs))
           ELSE pc' = "Private" /\ UNCHANGED <<result, goErr>>
    /\ UNCHANGED <<req, env, cfg, version, requestURL, sent, resp, notifyErr, vreq, vresp, vErr, vIn, vOut, via, redirect, client, httpClient, made>>

ValidateModulePathStage ==
    /\ pc = "ValidateModulePath"
    /\ LET err == validateModulePath(cfg.ModulePath)
       IN  IF err # Nil
           THEN Return(Response(FALSE, <<>>, Text("invalid module path: ") \o err, NoOutputs))
           ELSE pc' = "Private" /\ UNCHANGED <<result, goErr>>
    /\ UNCHANGED <<req, env, cfg, version, requestURL, sent, resp, notifyErr, vreq, vresp, vErr, vIn, vOut, via, redirect, client, httpClient, made>>

\* the private check placed after the proxy URL validation
PrivateStage_AfterProxyURL ==
    /\ pc = "Private"
    /\ IF validateProxyURL(cfg.ProxyURL) # Nil
       THEN Return(Response(FALSE, <<>>,
                Text("invalid proxy URL: ") \o validateProxyURL(cfg.ProxyURL), NoOutputs))
       ELSE IF cfg.Private
       THEN Return(Response(TRUE, Text("Skipping proxy notification for private module"), <<>>,
                            [module_path |-> cfg.ModulePath, private |-> TRUE, skipped |-> TRUE]))
       ELSE pc' = "ValidateProxyURL" /\ UNCHANGED <<result, goErr>>
    /\ UNCHANGED <<req, env, cfg, version, requestURL, sent, resp, notifyErr, vreq, vresp, vErr, vIn, vOut, via, redirect, client, httpClient, made>>

PrivateStage ==
    /\ pc = "Private"
    /\ IF cfg.Private
       THEN Return(Response(TRUE, Text("Skipping proxy notification for private module"), <<>>,
                            [module_path |-> cfg.ModulePath, private |-> TRUE, skipped |-> TRUE]))
       ELSE pc' = "ValidateProxyURL" /\ UNCHANGED <<result, goErr>>
    /\ UNCHANGED <<req, env, cfg, version, requestURL, sent, resp, notifyErr, vreq, vresp, vErr, vIn, vOut, via, redirect, client, httpClient, made>>

\* the validator's text put in Message instead of Error
ValidateProxyURLStage_ErrorInMessage ==
    /\ pc = "ValidateProxyURL"
    /\ LET err == validateProxyURL(cfg.ProxyURL)
       IN  IF err # Nil
           THEN Return(Response(FALSE, Text("invalid proxy URL: ") \o err, <<>>, NoOutputs))
           ELSE pc' = "ResolveVersion" /\ UNCHANGED <<result, goErr>>
    /\ UNCHANGED <<req, env, cfg, version, requestURL, sent, resp, notifyErr, vreq, vresp, vErr, vIn, vOut, via, redirect, client, httpClient, made>>

ValidateProxyURLStage ==
    /\ pc = "ValidateProxyURL"
    /\ LET err == validateProxyURL(cfg.ProxyURL)
       IN  IF err # Nil
           THEN Return(Response(FALSE, <<>>, Text("invalid proxy URL: ") \o err, NoOutputs))
           ELSE pc' = "ResolveVersion" /\ UNCHANGED <<result, goErr>>
    /\ UNCHANGED <<req, env, cfg, version, requestURL, sent, resp, notifyErr, vreq, vresp, vErr, vIn, vOut, via, redirect, client, httpClient, made>>

\* the version left as the release context supplies it
normalize_Unchanged(v) == v

\* the "v" put in front of every version
normalize_AlwaysPrefix(v) == <<"v">> \o v

\* the "v" prefix of lines 236-239
normalize(v) == IF HasPrefix(v, <<"v">>) THEN v ELSE <<"v">> \o v

\* the version taken from the tag name first
ResolveVersionStage_TagFirst ==
    /\ pc = "ResolveVersion"
    /\ LET v == IF req.TagName = <<>> THEN req.Version ELSE req.TagName
       IN  IF v = <<>>
           THEN /\ Return(Response(FALSE, <<>>, Text("version is required for proxy notification"), NoOutputs))
                /\ UNCHANGED version
           ELSE /\ version' = normalize(v)
                /\ pc' = "DryRun"
                /\ UNCHANGED <<result, goErr>>
    /\ UNCHANGED <<req, env, cfg, requestURL, sent, resp, notifyErr, vreq, vresp, vErr, vIn, vOut, via, redirect, client, httpClient, made>>

ResolveVersionStage ==
    /\ pc = "ResolveVersion"
    /\ LET v == IF req.Version = <<>> THEN req.TagName ELSE req.Version
       IN  IF v = <<>>
           THEN /\ Return(Response(FALSE, <<>>, Text("version is required for proxy notification"), NoOutputs))
                /\ UNCHANGED version
           ELSE /\ version' = normalize(v)
                /\ pc' = "DryRun"
                /\ UNCHANGED <<result, goErr>>
    /\ UNCHANGED <<req, env, cfg, requestURL, sent, resp, notifyErr, vreq, vresp, vErr, vIn, vOut, via, redirect, client, httpClient, made>>

NotifyOutputs == [module_path |-> cfg.ModulePath, version |-> version, proxy_url |-> cfg.ProxyURL]

\* postPublish without the dry-run return
DryRunStage_NoShortCircuit ==
    /\ pc = "DryRun"
    /\ pc' = "Notify"
    /\ UNCHANGED <<result, goErr>>
    /\ UNCHANGED <<req, env, cfg, version, requestURL, sent, resp, notifyErr, vreq, vresp, vErr, vIn, vOut, via, redirect, client, httpClient, made>>

DryRunStage ==
    /\ pc = "DryRun"
    /\ IF req.DryRun
       THEN Return(Response(TRUE,
                Text("Would notify Go module proxy for ") \o cfg.ModulePath \o <<"@">> \o version,
                <<>>, NotifyOutputs))
       ELSE pc' = "Notify" /\ UNCHANGED <<result, goErr>>
    /\ UNCHANGED <<req, env, cfg, version, requestURL, sent, resp, notifyErr, vreq, vresp, vErr, vIn, vOut, via, redirect, client, httpClient, made>>

(***************************************************************************)
(* triggerProxyIndex (plugin.go 273-335).                                  *)
(***************************************************************************)
\* triggerProxyIndex composing the request URL without validating it
BuildURL_NoRevalidation ==
    /\ pc = "Notify"
    /\ requestURL' = proxyRequestURL(cfg, version)
    /\ pc' = "URLBuilt"
    /\ UNCHANGED notifyErr
    /\ UNCHANGED <<req, env, cfg, version, sent, resp, result, goErr, vreq, vresp, vErr, vIn, vOut, via, redirect, client, httpClient, made>>

\* lines 276-289: compose the request URL and validate it
BuildURL ==
    /\ pc = "Notify"
    /\ requestURL' = proxyRequestURL(cfg, version)
    /\ LET err == validateProxyURL(requestURL')
       IN  IF err # Nil
           THEN /\ notifyErr' = Text("invalid request URL: ") \o err
                /\ pc' = "NotifyFailed"
           ELSE /\ pc' = "URLBuilt"
                /\ UNCHANGED notifyErr
    /\ UNCHANGED <<req, env, cfg, version, sent, resp, result, goErr, vreq, vresp, vErr, vIn, vOut, via, redirect, client, httpClient, made>>

\* createDefaultHTTPClient (plugin.go 43-64): a new http.Client, the n-th of this process
createDefaultHTTPClient(timeout, n) ==
    [id |-> n, Timeout |-> timeout, CheckRedirect |-> TRUE, MinVersion |-> "TLS13"]

\* getHTTPClient (plugin.go 35-40)
getHTTPClient(timeout) ==
    IF httpClient # None THEN httpClient ELSE createDefaultHTTPClient(timeout, made + 1)

\* triggerProxyIndex keeping the client it obtained in the package variable
Dispatch_StoresClient ==
    /\ pc = "URLBuilt"
    /\ sent' = Append(sent, [Method |-> "GET", URL |-> requestURL, Body |-> None,
                             UserAgent |-> "relicta-gomod-plugin/2.0.0"])
    /\ client' = getHTTPClient(cfg.Timeout)
    /\ httpClient' = client'
    /\ made' = IF httpClient = None THEN made + 1 ELSE made
    /\ via' = <<"https">>
    /\ pc' = "RequestSent"
    /\ UNCHANGED <<req, env, cfg, version, requestURL, resp, notifyErr, result, goErr, vreq, vresp, vErr, vIn, vOut, redirect>>

\* lines 291-304: the request is created and handed to client.Do
Dispatch ==
    /\ pc = "URLBuilt"
    /\ sent' = Append(sent, [Method |-> "GET", URL |-> requestURL, Body |-> None,
                             UserAgent |-> "relicta-gomod-plugin/2.0.0"])
    /\ client' = getHTTPClient(cfg.Timeout)
    /\ made' = IF httpClient = None THEN made + 1 ELSE made
    /\ via' = <<"https">>
    /\ pc' = "RequestSent"
    /\ UNCHANGED <<req, env, cfg, version, requestURL, resp, notifyErr, result, goErr, vreq, vresp, vErr, vIn, vOut, redirect, httpClient>>

\* the proxy answers: a status code and a body that io.ReadAll can read or not
ProxyResponds(status, body, readOK) ==
    /\ pc = "RequestSent"
    /\ resp = None
    /\ redirect = ""
    /\ resp' = [kind |-> "response", StatusCode |-> status,
                Body |-> IF readOK THEN body ELSE <<>>, readOK |-> readOK, cause |-> ""]
    /\ via' = <<>>
    /\ UNCHANGED <<pc, req, env, cfg, version, requestURL, sent, notifyErr, result, goErr, vreq, vresp, vErr, vIn, vOut, redirect, client, httpClient, made>>

\* client.Do fails: no connection, the caller's context cancelled, the timeout
NetworkFails(cause) ==
    /\ pc = "RequestSent"
    /\ resp = None
    /\ redirect = ""
    /\ resp' = [kind |-> "error", StatusCode |-> 0, Body |-> <<>>, readOK |-> FALSE, cause |-> cause]
    /\ via' = <<>>
    /\ UNCHANGED <<pc, req, env, cfg, version, requestURL, sent, notifyErr, result, goErr, vreq, vresp, vErr, vIn, vOut, redirect, client, httpClient, made>>

\* the schemes a Location header can name
RedirectSchemes == {"https", "http"}

\* the proxy answers the last request with a redirect to a URL of some scheme
ProxyRedirects(scheme) ==
    /\ pc = "RequestSent"
    /\ resp = None
    /\ redirect = ""
    /\ redirect' = scheme
    /\ UNCHANGED <<pc, req, env, cfg, version, requestURL, sent, resp, notifyErr, result, goErr, vreq, vresp, vErr, vIn, vOut, via, client, httpClient, made>>

\* CheckRedirect without the scheme test
CheckRedirect_AnyScheme(scheme, viaReqs) ==
    IF Len(viaReqs) >= 3 THEN Text("too many redirects") ELSE Nil

\* the CheckRedirect function of the default client (plugin.go 46-54)
CheckRedirect(scheme, viaReqs) ==
    IF Len(viaReqs) >= 3 THEN Text("too many redirects")
    ELSE IF scheme # "https" THEN Text("redirect to non-HTTPS URL not allowed")
    ELSE Nil

\* http.Client.Do asks CheckRedirect before it follows the redirect: on an
\* error client.Do returns it, otherwise the next request is made
FollowRedirect ==
    /\ pc = "RequestSent"
    /\ redirect # ""
    /\ LET err == CheckRedirect(redirect, via)
       IN  IF err # Nil
           THEN /\ resp' = [kind |-> "error", StatusCode |-> 0, Body |-> <<>>, readOK |-> FALSE,
                            cause |-> err[1]]
                /\ via' = <<>>
           ELSE /\ via' = Append(via, redirect)
                /\ UNCHANGED resp
    /\ redirect' = ""
    /\ UNCHANGED <<pc, req, env, cfg, version, requestURL, sent, notifyErr, result, goErr, vreq, vresp, vErr, vIn, vOut, client, httpClient, made>>

\* triggerProxyIndex going on to the status switch when client.Do failed
ReceiveResponse_ErrorIgnored ==
    /\ pc = "RequestSent"
    /\ resp # None
    /\ IF resp.kind = "response" /\ ~resp.readOK
       THEN /\ notifyErr' = Text("failed to read response: ") \o Text("read error")
            /\ pc' = "NotifyFailed"
       ELSE /\ notifyErr' = classify(resp.StatusCode, resp.Body)
            /\ pc' = "Classified"
    /\ UNCHANGED <<req, env, cfg, version, requestURL, sent, resp, result, goErr, vreq, vresp, vErr, vIn, vOut, via, redirect, client, httpClient, made>>

\* triggerProxyIndex sending the request again when the body could not be read
ReceiveResponse_Resends ==
    /\ pc = "RequestSent"
    /\ resp # None
    /\ IF resp.kind = "error"
       THEN /\ notifyErr' = Text("failed to send request: ") \o Text(resp.cause)
            /\ pc' = "NotifyFailed"
            /\ UNCHANGED resp
       ELSE IF ~resp.readOK
       THEN /\ pc' = "URLBuilt"
            /\ resp' = None
            /\ UNCHANGED notifyErr
       ELSE /\ notifyErr' = classify(resp.StatusCode, resp.Body)
            /\ pc' = "Classified"
            /\ UNCHANGED resp
    /\ UNCHANGED <<req, env, cfg, version, requestURL, sent, result, goErr, vreq, vresp, vErr, vIn, vOut, via, redirect, client, httpClient, made>>

\* lines 304-334: client.Do has returned; read the body and classify
ReceiveResponse ==
    /\ pc = "RequestSent"
    /\ resp # None
    /\ IF resp.kind = "error"
       THEN /\ notifyErr' = Text("failed to send request: ") \o Text(resp.cause)
            /\ pc' = "NotifyFailed"
       ELSE IF ~resp.readOK
       THEN /\ notifyErr' = Text("failed to read response: ") \o Text("read error")
            /\ pc' = "NotifyFailed"
       ELSE /\ notifyErr' = classify(resp.StatusCode, resp.Body)
            /\ pc' = "Classified"
    /\ UNCHANGED <<req, env, cfg, version, requestURL, sent, resp, result, goErr, vreq, vresp, vErr, vIn, vOut, via, redirect, client, httpClient, made>>

\* postPublish trying the notification again when it failed
ReportOutcome_Retries ==
    /\ pc \in {"Classified", "NotifyFailed"}
    /\ IF notifyErr # Nil
       THEN /\ pc' = "Notify"
            /\ resp' = None
            /\ notifyErr' = Nil
            /\ UNCHANGED <<result, goErr>>
       ELSE /\ Return(Response(TRUE,
                Text("Go module proxy notified for ") \o cfg.ModulePath \o <<"@">> \o version,
                <<>>, [module_path |-> cfg.ModulePath, version |-> version, proxy_url |-> cfg.ProxyURL]))
            /\ UNCHANGED <<resp, notifyErr>>
    /\ UNCHANGED <<req, env, cfg, version, requestURL, sent, vreq, vresp, vErr, vIn, vOut, via, redirect, client, httpClient, made>>

\* postPublish handing the error of triggerProxyIndex to its caller
ReportOutcome_ReturnsError ==
    /\ pc \in {"Classified", "NotifyFailed"}
    /\ IF notifyErr # Nil
       THEN /\ pc' = "Done"
            /\ result' = None
            /\ goErr' = Text("failed to notify proxy: ") \o notifyErr
       ELSE Return(Response(TRUE,
                Text("Go module proxy notified for ") \o cfg.ModulePath \o <<"@">> \o version,
                <<>>, [module_path |-> cfg.ModulePath, version |-> version, proxy_url |-> cfg.ProxyURL]))
    /\ UNCHANGED <<req, env, cfg, version, requestURL, sent, resp, notifyErr, vreq, vresp, vErr, vIn, vOut, via, redirect, client, httpClient, made>>

\* lines 254-269: postPublish reports what triggerProxyIndex returned
ReportOutcome ==
    /\ pc \in {"Classified", "NotifyFailed"}
    /\ IF notifyErr # Nil
       THEN Return(Response(FALSE, <<>>, Text("failed to notify proxy: ") \o notifyErr, NoOutputs))
       ELSE Return(Response(TRUE,
                Text("Go module proxy notified for ") \o cfg.ModulePath \o <<"@">> \o version,
                <<>>, NotifyOutputs))
    /\ UNCHANGED <<req, env, cfg, version, requestURL, sent, resp, notifyErr, vreq, vresp, vErr, vIn, vOut, via, redirect, client, httpClient, made>>

\* the host has the result and the plugin process ends
Finish ==
    /\ pc \in {"Done", "Validated"}
    /\ pc' = "idle"
    /\ req' = None /\ env' = <<>> /\ cfg' = None /\ version' = <<>> /\ requestURL' = <<>>
    /\ sent' = <<>> /\ resp' = None /\ notifyErr' = Nil /\ result' = None /\ goErr' = Nil
    /\ vreq' = None /\ vresp' = None /\ vErr' = Nil
    /\ via' = <<>> /\ redirect' = "" /\ client' = None /\ httpClient' = None /\ made' = 0
    /\ UNCHANGED <<vIn, vOut>>

(***************************************************************************)
(* Validate (plugin.go 360-399).                                           *)
(***************************************************************************)
FieldError(field, message) == [Field |-> field, Message |-> message]

\* Validate letting a timeout of zero pass
validateErrors_ZeroAllowed(config, envModulePath) ==
    LET modulePath == GetString(config.module_path, envModulePath, <<>>)
        proxyURL   == GetString(config.proxy_url, <<>>, <<>>)
        t          == config.timeout
    IN  (IF modulePath = <<>>
         THEN <<FieldError("module_path", Text("Go module path is required"))>>
         ELSE IF validateModulePath(modulePath) # Nil
              THEN <<FieldError("module_path", validateModulePath(modulePath))>>
         ELSE <<>>)
        \o
        (IF proxyURL # <<>> /\ validateProxyURL(proxyURL) # Nil
         THEN <<FieldError("proxy_url", validateProxyURL(proxyURL))>>
         ELSE <<>>)
        \o
        (IF t.t \in {"absent", "string"} THEN <<>>
         ELSE IF t.t \in {"int", "float64"}
              THEN IF t.n < 0
                   THEN <<FieldError("timeout", Text("timeout must be a positive integer"))>>
                   ELSE <<>>
         ELSE <<FieldError("timeout", Text("timeout must be an integer"))>>)

\* Validate stopping at the first field in error
validateErrors_StopAtFirst(config, envModulePath) ==
    LET modulePath == GetString(config.module_path, envModulePath, <<>>)
        proxyURL   == GetString(config.proxy_url, <<>>, <<>>)
        t          == config.timeout
    IN  IF modulePath = <<>>
        THEN <<FieldError("module_path", Text("Go module path is required"))>>
        ELSE IF validateModulePath(modulePath) # Nil
        THEN <<FieldError("module_path", validateModulePath(modulePath))>>
        ELSE IF proxyURL # <<>> /\ validateProxyURL(proxyURL) # Nil
        THEN <<FieldError("proxy_url", validateProxyURL(proxyURL))>>
        ELSE IF t.t \in {"int", "float64"} /\ t.n <= 0
        THEN <<FieldError("timeout", Text("timeout must be a positive integer"))>>
        ELSE IF t.t \notin {"absent", "int", "float64", "string"}
        THEN <<FieldError("timeout", Text("timeout must be an integer"))>>
        ELSE <<>>

\* the errors vb has collected when Validate builds the response
validateErrors(config, envModulePath) ==
    LET modulePath == GetString(config.module_path, envModulePath, <<>>)
        proxyURL   == GetString(config.proxy_url, <<>>, <<>>)
        t          == config.timeout
    IN  (IF modulePath = <<>>
         THEN <<FieldError("module_path", Text("Go module path is required"))>>
         ELSE IF validateModulePath(modulePath) # Nil
              THEN <<FieldError("module_path", validateModulePath(modulePath))>>
         ELSE <<>>)
        \o
        (IF proxyURL # <<>> /\ validateProxyURL(proxyURL) # Nil
         THEN <<FieldError("proxy_url", validateProxyURL(proxyURL))>>
         ELSE <<>>)
        \o
        (IF t.t = "absent" THEN <<>>
         ELSE IF t.t = "int"
              THEN IF t.n <= 0
                   THEN <<FieldError("timeout", Text("timeout must be a positive integer"))>>
                   ELSE <<>>
         ELSE IF t.t = "float64"
              THEN IF t.n <= 0
                   THEN <<FieldError("timeout", Text("timeout must be a positive integer"))>>
                   ELSE <<>>
         ELSE IF t.t = "string" THEN <<>>
         ELSE <<FieldError("timeout", Text("timeout must be an integer"))>>)

\* vb.Build()
Build(errors) == [Valid |-> errors = <<>>, Errors |-> errors]

Validate(config, envModulePath) ==
    /\ pc = "idle"
    /\ pc' = "Validated"
    /\ vreq' = [Config |-> config, Env |-> envModulePath]
    /\ vresp' = Build(validateErrors(config, envModulePath))
    /\ vErr' = Nil
    /\ UNCHANGED <<req, env, cfg, version, requestURL, sent, resp, notifyErr, result, goErr, vIn, vOut, via, redirect, client, httpClient, made>>

\* the host calls Execute with any request, in any environment
ExecuteCall ==
    /\ pc = "idle"
    /\ \E hook \in Hooks, config \in RawConfigs, e \in EnvValues,
          ver \in Versions, tag \in TagNames, dryRun \in BOOLEAN :
          Execute(hook, config, e, ver, tag, dryRun)

\* the host calls Validate with any raw config, in any environment
ValidateCall ==
    /\ pc = "idle"
    /\ \E config \in RawConfigs, e \in EnvValues : Validate(config, e)

\* the proxy answers with a redirect
ClientDoRedirected ==
    /\ pc = "RequestSent"
    /\ resp = None
    /\ redirect = ""
    /\ \E scheme \in RedirectSchemes : ProxyRedirects(scheme)

\* the proxy or the network decides what client.Do returns
ClientDoReturns ==
    /\ pc = "RequestSent"
    /\ resp = None
    /\ redirect = ""
    /\ \/ \E status \in StatusCodes, body \in Bodies, readOK \in BOOLEAN :
             ProxyResponds(status, body, readOK)
       \/ \E cause \in NetworkCauses : NetworkFails(cause)

Next ==
    \/ ExecuteCall
    \/ ValidateModulePathStage
    \/ PrivateStage
    \/ ValidateProxyURLStage
    \/ ResolveVersionStage
    \/ DryRunStage
    \/ BuildURL
    \/ Dispatch
    \/ ClientDoRedirected
    \/ FollowRedirect
    \/ ClientDoReturns
    \/ ReceiveResponse
    \/ ReportOutcome
    \/ Finish
    \/ ValidateCall

Spec == Init /\ [][Next]_vars

(***************************************************************************)
(* Execute for the post-publish hook with a valid configuration and every  *)
(* version of at most MaxVersionLen characters of VersionAlphabet.         *)
(***************************************************************************)
MaxVersionLen == 3

VersionAlphabet == {"v", "V", "1", "."}

VersionInputs == UNION {[1..k -> VersionAlphabet] : k \in 0..MaxVersionLen}

GoodConfig == [nil |-> FALSE, module_path |-> StrVal(GoodPath), proxy_url |-> Absent,
               private |-> Absent, timeout |-> Absent]

VersionExecuteCall ==
    /\ pc = "idle"
    /\ \E ver \in VersionInputs, tag \in TagNames, dryRun \in BOOLEAN :
          Execute(HookPostPublish, GoodConfig, <<>>, ver, tag, dryRun)

VersionNext ==
    \/ VersionExecuteCall
    \/ ValidateModulePathStage
    \/ PrivateStage
    \/ ValidateProxyURLStage
    \/ ResolveVersionStage
    \/ DryRunStage
    \/ BuildURL
    \/ Dispatch
    \/ ClientDoRedirected
    \/ FollowRedirect
    \/ ClientDoReturns
    \/ ReceiveResponse
    \/ ReportOutcome
    \/ Finish

SpecVersion == Init /\ [][VersionNext]_vars

(***************************************************************************)
(* Validate and the config resolution of Execute over raw configurations   *)
(* with a timeout of every type Validate tells apart.  Execute runs as a   *)
(* dry run, so the invocation ends before triggerProxyIndex.               *)
(***************************************************************************)
WideTimeoutValues ==
    TimeoutValues \cup
    { IntVal(-1), FloatVal(-5), FloatVal(0), FloatVal(25),
      StrVal(<<"0">>), StrVal(<<"-", "5">>), BoolVal(TRUE) }

WideConfigs ==
    {NilConfig} \cup
    [nil : {FALSE}, module_path : ModulePathValues, proxy_url : ProxyURLValues,
     private : PrivateValues, timeout : WideTimeoutValues]

ConfigExecuteCall ==
    /\ pc = "idle"
    /\ \E hook \in Hooks, config \in WideConfigs, e \in EnvValues :
          Execute(hook, config, e, <<"1", ".", "0">>, <<>>, TRUE)

ConfigValidateCall ==
    /\ pc = "idle"
    /\ \E config \in WideConfigs, e \in EnvValues : Validate(config, e)

ConfigNext ==
    \/ ConfigExecuteCall
    \/ ConfigValidateCall
    \/ ValidateModulePathStage
    \/ PrivateStage
    \/ ValidateProxyURLStage
    \/ ResolveVersionStage
    \/ DryRunStage
    \/ Finish

SpecConfig == Init /\ [][ConfigNext]_vars

(***************************************************************************)
(* The module-path validator on its own, over every string of at most      *)
(* MaxShortLen characters of PathAlphabet and over strings padded to the   *)
(* lengths around the limit of 500.                                        *)
(***************************************************************************)
MaxShortLen == 6

MaxPadLen == 4

\* a letter, the dot, the slash, a dash and a character outside the class
PathAlphabet == {"a", ".", "/", "-", "@"}

StringsUpTo(n) == UNION {[1..k -> PathAlphabet] : k \in 0..n}

PaddedLens == {MaxModulePathLen - 1, MaxModulePathLen, MaxModulePathLen + 1}

PathInputs ==
    StringsUpTo(MaxShortLen)
    \cup {t \o Repeat("a", n - Len(t)) : t \in StringsUpTo(MaxPadLen), n \in PaddedLens}
    \cup {GoodPath \o Repeat("a", n - Len(GoodPath) - Len(t)) \o t :
              t \in StringsUpTo(MaxPadLen), n \in PaddedLens}

PathInit ==
    /\ pc = "idle"
    /\ req = None /\ env = <<>> /\ cfg = None /\ version = <<>> /\ requestURL = <<>>
    /\ sent = <<>> /\ resp = None /\ notifyErr = Nil /\ result = None /\ goErr = Nil
    /\ vreq = None /\ vresp = None /\ vErr = Nil
    /\ vIn \in PathInputs
    /\ vOut = [done |-> FALSE, err |-> Nil]
    /\ via = <<>>
    /\ redirect = ""
    /\ client = None
    /\ httpClient = None
    /\ made = 0

ApplyValidateModulePath ==
    /\ ~vOut.done
    /\ vOut' = [done |-> TRUE, err |-> validateModulePath(vIn)]
    /\ UNCHANGED <<pc, req, env, cfg, version, requestURL, sent, resp, notifyErr, result, goErr,
                   vreq, vresp, vErr, vIn, via, redirect, client, httpClient, made>>

PathNext == ApplyValidateModulePath

SpecPath == PathInit /\ [][PathNext]_vars

(***************************************************************************)
(* The proxy-URL validator on its own, over URLs put together from a       *)
(* scheme, a userinfo, a host, a port and a tail, and over "https://"      *)
(* followed by every string of at most MaxAuthLen characters of            *)
(* AuthAlphabet.                                                           *)
(***************************************************************************)
URLSchemes ==
    { <<"h", "t", "t", "p", "s", ":", "/", "/">>,
      <<"h", "t", "t", "p", ":", "/", "/">>,
      <<"H", "T", "T", "P", "S", ":", "/", "/">>,
      <<"f", "t", "p", ":", "/", "/">>,
      <<>>,
      <<"h", "t", "t", "p", "s", ":", "/">> }

URLUsers ==
    { <<>>,
      <<"u", "@">>,
      <<"l", "o", "c", "a", "l", "h", "o", "s", "t", "@">> }

URLHosts ==
    { <<"p", "r", "o", "x", "y", ".", "g", "o", "l", "a", "n", "g", ".", "o", "r", "g">>,
      <<"p", ".", "i", "o">>,
      <<"l", "o", "c", "a", "l", "h", "o", "s", "t">>,
      <<"L", "O", "C", "A", "L", "H", "O", "S", "T">>,
      <<"L", "o", "c", "a", "l", "H", "o", "s", "t">>,
      <<"l", "o", "c", "a", "l", "h", "o", "s", "t", ".">>,
      <<"1", "2", "7", ".", "0", ".", "0", ".", "1">>,
      <<"1", "2", "7", ".", "0", ".", "0", ".", "2">>,
      <<"[", ":", ":", "1", "]">>,
      <<"[", ":", ":", "2", "]">>,
      <<"1", "0", ".", "0", ".", "0", ".", "5">>,
      <<"1", "1", ".", "0", ".", "0", ".", "5">>,
      <<"1", "9", "2", ".", "1", "6", "8", ".", "1", ".", "1">>,
      <<"1", "9", "2", ".", "1", "6", "9", ".", "1", ".", "1">>,
      <<"1", "7", "2", ".", "1", "6", ".", "0", ".", "1">>,
      <<"1", "7", "2", ".", "2", "0", "0", ".", "0", ".", "1">>,
      <<"1", "7", "2", "0", ".", "0", ".", "0", ".", "1">>,
      <<"a", ".", "l", "o", "c", "a", "l">>,
      <<"A", ".", "L", "o", "c", "a", "l">>,
      <<"a", ".", "l", "o", "c", "a", "l", "x">>,
      <<"l", "o", "c", "a", "l">>,
      <<"a", ".", "i", "n", "t", "e", "r", "n", "a", "l">>,
      <<"a", ".", "I", "N", "T", "E", "R", "N", "A", "L">>,
      <<"i", "n", "t", "e", "r", "n", "a", "l", ".", "i", "o">>,
      <<>>,
      <<"a", " ", "b">>,
      <<"a", "%", "z", "z">> }

URLPorts ==
    { <<>>,
      <<":", "8", "0", "8", "0">>,
      <<":">>,
      <<":", "x">> }

URLTails ==
    { <<>>,
      <<"/">>,
      <<"/", "a", "?", "b", "=", "c">>,
      <<"?", "q">>,
      <<"#", "f">>,
      <<"/", "%", "z", "z">> }

MaxAuthLen == 4

AuthAlphabet == {"1", "0", ".", "a", ":", "@", "/"}

URLInputs ==
    {sc \o us \o h \o po \o ta :
        sc \in URLSchemes, us \in URLUsers, h \in URLHosts, po \in URLPorts, ta \in URLTails}
    \cup {HttpsPrefix \o a : a \in UNION {[1..k -> AuthAlphabet] : k \in 0..MaxAuthLen}}

URLInit ==
    /\ pc = "idle"
    /\ req = None /\ env = <<>> /\ cfg = None /\ version = <<>> /\ requestURL = <<>>
    /\ sent = <<>> /\ resp = None /\ notifyErr = Nil /\ result = None /\ goErr = Nil
    /\ vreq = None /\ vresp = None /\ vErr = Nil
    /\ vIn \in URLInputs
    /\ vOut = [done |-> FALSE, err |-> Nil]
    /\ via = <<>>
    /\ redirect = ""
    /\ client = None
    /\ httpClient = None
    /\ made = 0

ApplyValidateProxyURL ==
    /\ ~vOut.done
    /\ vOut' = [done |-> TRUE, err |-> validateProxyURL(vIn)]
    /\ UNCHANGED <<pc, req, env, cfg, version, requestURL, sent, resp, notifyErr, result, goErr,
                   vreq, vresp, vErr, vIn, via, redirect, client, httpClient, made>>

URLNext == ApplyValidateProxyURL

SpecURL == URLInit /\ [][URLNext]_vars

(***************************************************************************)
(* Properties of Execute and Validate, checked under Spec.                 *)
(***************************************************************************)
\* an Execute invocation is in progress or has just returned
InExecute == pc \notin {"idle", "Validated"}

Returned == pc = "Done"

\* the version string the release context supplies
SuppliedVersion == IF req.Version # <<>> THEN req.Version ELSE req.TagName

\* every gate in front of the request is open
GatesOpen ==
    /\ validateModulePath(cfg.ModulePath) = Nil
    /\ ~cfg.Private
    /\ validateProxyURL(cfg.ProxyURL) = Nil
    /\ (req.Version # <<>> \/ req.TagName # <<>>)

HasKeys(outputs, keys) == keys \subseteq DOMAIN outputs

\* C1: a request is handed to the HTTP client only in a post-publish
\* invocation whose resolved module path passes validateModulePath, whose
\* private flag is false, whose proxy URL passes validateProxyURL, which has
\* a version or a tag name, which is not a dry run and whose composed request
\* URL passes validateProxyURL; every other invocation returns without one.
C1_RequestOnlyThroughAllGates ==
    /\ (InExecute /\ sent # <<>>) =>
          /\ req.Hook = HookPostPublish
          /\ GatesOpen
          /\ ~req.DryRun
          /\ validateProxyURL(sent[1].URL) = Nil
          /\ sent[1].URL = requestURL
    /\ (Returned /\ ~(/\ req.Hook = HookPostPublish
                      /\ GatesOpen
                      /\ ~req.DryRun
                      /\ validateProxyURL(proxyRequestURL(cfg, normalize(SuppliedVersion))) = Nil))
          => sent = <<>>

C1_Witness == pc = "RequestSent" /\ Len(sent) = 1

\* a returned dry-run result is the "Would notify" report
IsWouldNotify ==
    /\ result.Success
    /\ result.Message # <<>>
    /\ result.Message[1] = "Would notify Go module proxy for "
    /\ HasKeys(result.Outputs, {"module_path", "version", "proxy_url"})
    /\ result.Outputs.module_path = cfg.ModulePath
    /\ result.Outputs.proxy_url = cfg.ProxyURL
    /\ result.Outputs.version =
          IF SuppliedVersion[1] = "v" THEN SuppliedVersion ELSE <<"v">> \o SuppliedVersion

\* C2 as stated: every post-publish dry run makes no network call and
\* returns the "Would notify" report with module_path, version, proxy_url.
C2_Original ==
    (Returned /\ req.Hook = HookPostPublish /\ req.DryRun) =>
        (sent = <<>> /\ result.Message # <<>> /\ IsWouldNotify)

\* C2 amended: a post-publish dry run never makes a network call; when the
\* module path is valid, private is false, the proxy URL is valid and a
\* version or tag name is present it returns the "Would notify" report with
\* module_path, the normalized version and proxy_url in its outputs.
C2_DryRun ==
    /\ (InExecute /\ req.Hook = HookPostPublish /\ req.DryRun) => sent = <<>>
    /\ (Returned /\ req.Hook = HookPostPublish /\ req.DryRun /\ GatesOpen) => IsWouldNotify

C2_Witness ==
    /\ Returned /\ req.Hook = HookPostPublish /\ req.DryRun /\ GatesOpen
    /\ result.Message[1] = "Would notify Go module proxy for "
    /\ req.Version = <<"1", ".", "0">>

IsSkipped ==
    /\ result.Success
    /\ HasKeys(result.Outputs, {"private", "skipped"})
    /\ result.Outputs.private = TRUE
    /\ result.Outputs.skipped = TRUE

\* C3 as stated: every post-publish invocation with private=true makes no
\* network call and succeeds with private=true and skipped=true.
C3_Original ==
    (Returned /\ req.Hook = HookPostPublish /\ cfg.Private) => (sent = <<>> /\ IsSkipped)

\* C3 amended: a post-publish invocation with private=true never makes a
\* network call; when its module path is valid it succeeds with private=true
\* and skipped=true in the outputs, whatever the proxy URL is.
C3_Private ==
    /\ (InExecute /\ req.Hook = HookPostPublish /\ cfg.Private) => sent = <<>>
    /\ (Returned /\ req.Hook = HookPostPublish /\ cfg.Private
            /\ validateModulePath(cfg.ModulePath) = Nil) => IsSkipped

C3_Witness ==
    /\ Returned /\ req.Hook = HookPostPublish /\ cfg.Private
    /\ validateProxyURL(cfg.ProxyURL) # Nil
    /\ result.Success /\ result.Outputs.skipped = TRUE

\* client.Do came back with a failure: no response, or an error status
ProxyFailed ==
    /\ resp # None
    /\ \/ resp.kind = "error"
       \/ resp.kind = "response" /\ resp.readOK /\ resp.StatusCode >= 400

\* C4: an invocation hands at most one request to the HTTP client; after a
\* network failure, a 404, a 410 or another error status it returns a
\* failure having sent that one request only.
C4_AtMostOneRequest ==
    /\ Len(sent) <= 1
    /\ (Returned /\ ProxyFailed) => (~result.Success /\ Len(sent) = 1)

C4_Witness == Returned /\ ProxyFailed /\ resp.StatusCode = 404 /\ ~result.Success

\* C5: a response with status N is classified as: 200 success; 404 failure
\* naming 404 and tag propagation; 410 failure naming 410 and
\* unavailability; any other N >= 400 failure "proxy returned error status
\* N" with the body; any other N success.
C5_Classification ==
    pc = "Classified" =>
        LET N == resp.StatusCode
        IN  /\ N = 200 => notifyErr = Nil
            /\ N = 404 => /\ notifyErr # Nil
                          /\ notifyErr[1] = "module or version not found (404): "
                          /\ notifyErr[Len(notifyErr)] = " - the tag may need time to propagate"
            /\ N = 410 => /\ notifyErr # Nil
                          /\ notifyErr[1] = "version does not exist or is unavailable (410): "
            /\ (N >= 400 /\ N \notin {404, 410}) =>
                   notifyErr = <<"proxy returned error status ", ToString(N), ": ">> \o resp.Body
            /\ (N < 400 /\ N # 200) => notifyErr = Nil

C5_Witness ==
    pc = "Classified" /\ resp.StatusCode = 400 /\ resp.Body # <<>> /\ notifyErr # Nil

\* C6: Execute and Validate return a nil error next to a result, whatever
\* the hook, the raw config, the release context, the dry-run flag and the
\* proxy do.
C6_NoGoError ==
    /\ goErr = Nil
    /\ vErr = Nil
    /\ Returned => result # None
    /\ pc = "Validated" => vresp # None

C6_Witness == Returned /\ resp # None /\ resp.kind = "error" /\ ~result.Success

\* C7: in a returned ExecutionResult the error string is non-empty exactly
\* when success is false.
C7_ErrorIffFailure ==
    Returned => ((result.Error # <<>>) <=> ~result.Success)

C7_Witness == Returned /\ ~result.Success /\ result.Error[1] = "invalid proxy URL: "

(***************************************************************************)
(* Properties of validateModulePath, checked under SpecPath.  The rules    *)
(* are written here from their description, without the automaton.         *)
(***************************************************************************)
RuleEmpty(p) == Len(p) = 0

RuleTooLong(p) == Len(p) > 500

RuleDotDot(p) == \E i \in 1..(Len(p) - 1) : p[i] = "." /\ p[i + 1] = "."

RuleLeadingSlash(p) == Len(p) > 0 /\ p[1] = "/"

RuleDoubleSlash(p) == \E i \in 1..(Len(p) - 1) : p[i] = "/" /\ p[i + 1] = "/"

SafeChar(c) == c \in Lower \cup Upper \cup Digit \cup {".", "-", "_"}

\* the index of the first '/', or Len(p) + 1
HostEnd(p) ==
    IF \E i \in 1..Len(p) : p[i] = "/"
    THEN CHOOSE i \in 1..Len(p) : p[i] = "/" /\ \A j \in 1..(i - 1) : p[j] # "/"
    ELSE Len(p) + 1

\* host.tld/path[/...]: a host of safe characters with a '.' inside it,
\* then one or more non-empty segments of safe characters, each after a '/'
HostPathShape(p) ==
    LET f == HostEnd(p)
    IN  /\ f <= Len(p)
        /\ \A i \in 1..(f - 1) : SafeChar(p[i])
        /\ \E d \in 2..(f - 2) : p[d] = "."
        /\ p[Len(p)] # "/"
        /\ \A i \in f..Len(p) : p[i] = "/" \/ SafeChar(p[i])
        /\ \A i \in f..(Len(p) - 1) : p[i] = "/" => p[i + 1] # "/"

\* the shape the validator asks for: the host moreover starts with a letter
\* or a digit
RequiredShape(p) == HostPathShape(p) /\ p[1] \in Lower \cup Upper \cup Digit

\* the message of the first rule p violates, in the order of the rules
FirstViolation(p) ==
    IF RuleEmpty(p) THEN <<"module path cannot be empty">>
    ELSE IF RuleTooLong(p) THEN <<"module path too long (max 500 characters)">>
    ELSE IF RuleDotDot(p) THEN <<"module path cannot contain '..'">>
    ELSE IF RuleLeadingSlash(p) THEN <<"module path cannot start with '/'">>
    ELSE IF RuleDoubleSlash(p) THEN <<"module path cannot contain '//'">>
    ELSE IF ~RequiredShape(p)
         THEN <<"invalid module path format: must be like 'github.com/user/repo'">>
    ELSE Nil

\* C8: the validator returns the message of the first rule violated in the
\* order empty, longer than 500, '..', leading '/', '//', bad shape; a string
\* of exactly 500 characters is not too long.
C8_FirstRuleWins ==
    vOut.done =>
        /\ vOut.err = FirstViolation(vIn)
        /\ Len(vIn) = 500 => vOut.err # <<"module path too long (max 500 characters)">>
        /\ (Len(vIn) >= 2 /\ vIn[1] = "/" /\ vIn[2] = "/" /\ ~RuleTooLong(vIn) /\ ~RuleDotDot(vIn))
               => vOut.err = <<"module path cannot start with '/'">>

C8_Witness ==
    /\ vOut.done
    /\ RuleTooLong(vIn) /\ RuleDotDot(vIn)
    /\ vOut.err = <<"module path too long (max 500 characters)">>

\* C9: a string the validator accepts is non-empty, at most 500 long, has
\* no '..', no '//', no leading '/', and is a dotted host followed by one or
\* more non-empty '/'-separated segments of letters, digits, '.', '-', '_'.
C9_AcceptedIsWellFormed ==
    (vOut.done /\ vOut.err = Nil) =>
        /\ ~RuleEmpty(vIn)
        /\ ~RuleTooLong(vIn)
        /\ ~RuleDotDot(vIn)
        /\ ~RuleDoubleSlash(vIn)
        /\ ~RuleLeadingSlash(vIn)
        /\ HostPathShape(vIn)

C9_Witness == vOut.done /\ vOut.err = Nil /\ Len(vIn) = 500

\* the strings C10 speaks of
WellFormed(p) ==
    /\ HostPathShape(p)
    /\ ~RuleDotDot(p)
    /\ ~RuleDoubleSlash(p)
    /\ ~RuleLeadingSlash(p)

\* C10 as stated: every string host.tld/path[/...] of safe characters with
\* no '..', no '//' and no leading '/' is accepted.
C10_Original ==
    (vOut.done /\ WellFormed(vIn)) => vOut.err = Nil

\* C10 amended: every such string that is at most 500 characters long and
\* starts with a letter or a digit is accepted.
C10_WellFormedIsAccepted ==
    (vOut.done /\ WellFormed(vIn) /\ Len(vIn) <= 500 /\ vIn[1] \in Lower \cup Upper \cup Digit)
        => vOut.err = Nil

C10_Witness ==
    /\ vOut.done /\ WellFormed(vIn) /\ vOut.err = Nil
    /\ \E i \in (HostEnd(vIn) + 1)..Len(vIn) : vIn[i] = "/"

(***************************************************************************)
(* Properties of validateProxyURL, checked under SpecURL.  The hostname of *)
(* a URL is read here off its text: what follows "https://" up to the      *)
(* first '/', '?' or '#', after the last '@', without a port and without   *)
(* brackets.                                                               *)
(***************************************************************************)
URLAuthority(u) ==
    LET r     == SubSeq(u, 9, Len(u))
        stops == {i \in 1..Len(r) : r[i] \in {"/", "?", "#"}}
        e     == IF stops = {} THEN Len(r) + 1
                 ELSE CHOOSE i \in stops : \A j \in stops : i <= j
    IN  SubSeq(r, 1, e - 1)

URLHostPort(u) ==
    LET a   == URLAuthority(u)
        ats == {i \in 1..Len(a) : a[i] = "@"}
        k   == IF ats = {} THEN 0 ELSE CHOOSE i \in ats : \A j \in ats : i >= j
    IN  SubSeq(a, k + 1, Len(a))

URLHostname(u) ==
    LET hp     == URLHostPort(u)
        colons == {i \in 1..Len(hp) : hp[i] = ":" /\ \A j \in (i + 1)..Len(hp) : hp[j] \in Digit}
        c      == IF colons = {} THEN Len(hp) + 1
                  ELSE CHOOSE i \in colons : \A j \in colons : i <= j
        h      == SubSeq(hp, 1, c - 1)
    IN  IF Len(h) >= 2 /\ h[1] = "[" /\ h[Len(h)] = "]" THEN SubSeq(h, 2, Len(h) - 1) ELSE h

LoopbackNames ==
    { <<"l", "o", "c", "a", "l", "h", "o", "s", "t">>,
      <<"1", "2", "7", ".", "0", ".", "0", ".", "1">>,
      <<":", ":", "1">> }

PrivatePrefixes ==
    { <<"1", "0", ".">>, <<"1", "9", "2", ".", "1", "6", "8", ".">>, <<"1", "7", "2", ".">> }

PrivateSuffixes ==
    { <<".", "l", "o", "c", "a", "l">>, <<".", "i", "n", "t", "e", "r", "n", "a", "l">> }

StartsHTTPS(u) == Len(u) >= 8 /\ SubSeq(u, 1, 8) = <<"h", "t", "t", "p", "s", ":", "/", "/">>

IsLoopback(u) == StartsHTTPS(u) /\ ToLower(URLHostname(u)) \in LoopbackNames

IsPrivateNet(u) ==
    /\ StartsHTTPS(u)
    /\ LET h == ToLower(URLHostname(u))
       IN  \/ \E p \in PrivatePrefixes : Len(h) >= Len(p) /\ SubSeq(h, 1, Len(p)) = p
           \/ \E x \in PrivateSuffixes :
                  Len(h) >= Len(x) /\ SubSeq(h, Len(h) - Len(x) + 1, Len(h)) = x

\* C11: the validator rejects every string that does not start with
\* "https://", every URL whose lower-cased hostname is localhost, 127.0.0.1
\* or ::1, and every URL whose lower-cased hostname starts with 10.,
\* 192.168. or 172. or ends with .local or .internal; it accepts
\* https://proxy.golang.org and every other https:// string that parses as a
\* URL with a non-empty host outside those sets.
C11_ProxyURLRules ==
    vOut.done =>
        /\ ~StartsHTTPS(vIn) => vOut.err = <<"proxy URL must use HTTPS">>
        /\ IsLoopback(vIn) => vOut.err # Nil
        /\ IsPrivateNet(vIn) => vOut.err # Nil
        /\ (/\ StartsHTTPS(vIn) /\ urlParse(vIn).ok /\ URLHostPort(vIn) # <<>>
            /\ ~IsLoopback(vIn) /\ ~IsPrivateNet(vIn)) => vOut.err = Nil
        /\ vIn = <<"h", "t", "t", "p", "s", ":", "/", "/", "p", "r", "o", "x", "y", ".",
                   "g", "o", "l", "a", "n", "g", ".", "o", "r", "g">> => vOut.err = Nil

C11_Witness ==
    /\ vOut.done
    /\ IsLoopback(vIn)
    /\ URLHostname(vIn) = <<"L", "O", "C", "A", "L", "H", "O", "S", "T">>
    /\ vOut.err = <<"proxy URL cannot be localhost">>

(***************************************************************************)
(* Properties of the version, the request and the resolved configuration,  *)
(* checked under Spec.                                                     *)
(***************************************************************************)
\* x as it is or with a 'v' put in front
WithOrWithoutV(x) == {x, <<"v">> \o x}

\* C12: the version used is releaseContext.version when that is non-empty,
\* otherwise releaseContext.tagName; when both are empty a post-publish
\* invocation with a valid module path, private false and a valid proxy URL
\* fails with "version is required" and hands no request to the client.
C12_VersionSelection ==
    /\ (InExecute /\ version # <<>>) =>
          IF req.Version # <<>> THEN version \in WithOrWithoutV(req.Version)
          ELSE req.TagName # <<>> /\ version \in WithOrWithoutV(req.TagName)
    /\ (Returned /\ req.Hook = HookPostPublish /\ "version" \in DOMAIN result.Outputs) =>
          result.Outputs.version = version /\ version # <<>>
    /\ (/\ Returned /\ req.Hook = HookPostPublish
        /\ validateModulePath(cfg.ModulePath) = Nil /\ ~cfg.Private
        /\ validateProxyURL(cfg.ProxyURL) = Nil
        /\ req.Version = <<>> /\ req.TagName = <<>>) =>
          /\ ~result.Success
          /\ result.Error = <<"version is required for proxy notification">>
          /\ sent = <<>>

C12_Witness ==
    /\ Returned /\ req.Version = <<>> /\ req.TagName # <<>>
    /\ result.Success /\ "version" \in DOMAIN result.Outputs
    /\ result.Outputs.version = req.TagName
    /\ Len(sent) = 1

(***************************************************************************)
(* Properties of the version normalization, checked under SpecVersion.     *)
(***************************************************************************)
VersionSuffix(v) == <<"/", "@", "v", "/">> \o v \o <<".", "i", "n", "f", "o">>

\* C13: the normalized version starts with 'v', is the supplied string
\* itself when that starts with 'v' and the supplied string after a 'v'
\* otherwise, and normalizing it again changes nothing; the version in every
\* request URL and in every outputs map starts with 'v'.
C13_VersionHasV ==
    /\ (InExecute /\ version # <<>>) =>
          /\ version[1] = "v"
          /\ version = IF SuppliedVersion[1] = "v" THEN SuppliedVersion
                       ELSE <<"v">> \o SuppliedVersion
          /\ normalize(version) = version
          /\ normalize(normalize(SuppliedVersion)) = normalize(SuppliedVersion)
    /\ \A i \in 1..Len(sent) :
          /\ version # <<>> /\ version[1] = "v"
          /\ Len(sent[i].URL) > Len(VersionSuffix(version))
          /\ SubSeq(sent[i].URL, Len(sent[i].URL) - Len(VersionSuffix(version)) + 1,
                    Len(sent[i].URL)) = VersionSuffix(version)
    /\ (Returned /\ "version" \in DOMAIN result.Outputs) =>
          result.Outputs.version # <<>> /\ result.Outputs.version[1] = "v"

C13_Witness ==
    /\ Returned /\ result.Success /\ Len(sent) = 1
    /\ req.Version = <<"V", "1">>
    /\ result.Outputs.version = <<"v", "V", "1">>

\* the proxy URL without one trailing '/'
WithoutTrailingSlash(u) ==
    IF Len(u) > 0 /\ u[Len(u)] = "/" THEN SubSeq(u, 1, Len(u) - 1) ELSE u

\* {base}/{modulePath}/@v/{v}.info
InfoURL(base, modulePath, v) ==
    base \o <<"/">> \o modulePath \o <<"/", "@", "v", "/">> \o v \o <<".", "i", "n", "f", "o">>

\* C14: the request handed to the client is a GET without a body, with
\* User-Agent relicta-gomod-plugin/2.0.0, to the URL {proxy URL without a
\* trailing '/'}/{module path}/@v/{normalized version}.info in which the
\* module path stands as it is, its '/' literal; https://p.io and
\* https://p.io/ give the same request URL.
C14_RequestFormat ==
    \A i \in 1..Len(sent) :
        /\ sent[i].Method = "GET"
        /\ sent[i].Body = None
        /\ sent[i].UserAgent = "relicta-gomod-plugin/2.0.0"
        /\ sent[i].URL = InfoURL(WithoutTrailingSlash(cfg.ProxyURL), cfg.ModulePath,
                                 IF SuppliedVersion[1] = "v" THEN SuppliedVersion
                                 ELSE <<"v">> \o SuppliedVersion)
        /\ \A k \in 1..(Len(sent[i].URL) - 2) :
              SubSeq(sent[i].URL, k, k + 2) # <<"%", "2", "F">>
        /\ cfg.ProxyURL \in { <<"h", "t", "t", "p", "s", ":", "/", "/", "p", ".", "i", "o">>,
                              <<"h", "t", "t", "p", "s", ":", "/", "/", "p", ".", "i", "o", "/">> }
              => sent[i].URL =
                    InfoURL(<<"h", "t", "t", "p", "s", ":", "/", "/", "p", ".", "i", "o">>,
                            cfg.ModulePath, version)

C14_Witness ==
    /\ pc = "RequestSent" /\ Len(sent) = 1
    /\ cfg.ProxyURL[Len(cfg.ProxyURL)] = "/"
    /\ Len(cfg.ModulePath) > 5
    /\ req.Version = <<"1", ".", "0">>

(***************************************************************************)
(* Properties of the resolved configuration and of Validate, checked under *)
(* SpecConfig.                                                             *)
(***************************************************************************)
\* the raw value under a key is missing, or is the empty string
MissingOrEmpty(v) == v.t = "absent" \/ (v.t = "string" /\ v.s = <<>>)

\* the raw timeout carries a number that is zero or negative
NonPositive(v) ==
    \/ v.t \in {"int", "float64"} /\ v.n <= 0
    \/ v.t = "string" /\ v.s \in { <<"0">>, <<"-", "5">> }

\* C15: the resolved Configuration has a non-empty proxy URL and a timeout
\* greater than 0 for every raw configuration, nil included; a missing or
\* empty proxy_url resolves to https://proxy.golang.org and a missing, zero
\* or negative timeout resolves to 30.
C15_ResolvedDefaults ==
    InExecute =>
        /\ cfg.ProxyURL # <<>>
        /\ cfg.Timeout > 0
        /\ MissingOrEmpty(req.Config.proxy_url) =>
               cfg.ProxyURL = <<"h", "t", "t", "p", "s", ":", "/", "/", "p", "r", "o", "x", "y",
                                ".", "g", "o", "l", "a", "n", "g", ".", "o", "r", "g">>
        /\ (req.Config.timeout.t = "absent" \/ NonPositive(req.Config.timeout)) =>
               cfg.Timeout = 30

C15_Witness ==
    /\ Returned
    /\ req.Config.timeout = IntVal(-1) /\ cfg.Timeout = 30
    /\ req.Config.proxy_url = StrVal(<<>>) /\ cfg.ProxyURL = defaultProxyURL

\* C16: the resolved module path is the value under module_path when the key
\* is present and holds a string, otherwise the value of GO_MODULE_PATH,
\* otherwise the empty string; a module_path given in the config wins over
\* the environment variable.
C16_ModulePathResolution ==
    InExecute =>
        /\ cfg.ModulePath =
              IF req.Config.module_path.t = "string" THEN req.Config.module_path.s
              ELSE IF env # <<>> THEN env
              ELSE <<>>
        /\ (req.Config.module_path.t = "string" /\ req.Config.module_path.s # <<>> /\ env # <<>>)
              => cfg.ModulePath = req.Config.module_path.s /\ cfg.ModulePath # env

C16_Witness ==
    /\ Returned /\ env # <<>>
    /\ req.Config.module_path.t = "string" /\ req.Config.module_path.s # <<>>
    /\ cfg.ModulePath = req.Config.module_path.s
    /\ result.Success /\ req.Hook = HookPostPublish

(***************************************************************************)
(* Properties of Execute and Validate on invalid input, checked under      *)
(* Spec.                                                                   *)
(***************************************************************************)
\* C17: for a hook other than post-publish Execute returns at once with
\* success and the message "Hook <hook> not handled": no validator runs, so
\* an invalid configuration does not matter, no version is resolved and no
\* request is handed to the client.
C17_OtherHooksNotHandled ==
    (InExecute /\ req.Hook # "post-publish") =>
        /\ pc = "Done"
        /\ result.Success
        /\ result.Message = <<"Hook ", req.Hook, " not handled">>
        /\ result.Error = <<>>
        /\ DOMAIN result.Outputs = {}
        /\ goErr = Nil
        /\ version = <<>> /\ requestURL = <<>> /\ resp = None /\ notifyErr = Nil
        /\ sent = <<>>

C17_Witness ==
    /\ Returned /\ req.Hook = "pre-publish" /\ result.Success
    /\ validateModulePath(cfg.ModulePath) # Nil
    /\ validateProxyURL(cfg.ProxyURL) # Nil
    /\ req.Version = <<>> /\ req.TagName = <<>> /\ ~req.DryRun

\* what Validate returned, as the sequence of the fields in error
ErrorFields == [i \in 1..Len(vresp.Errors) |-> vresp.Errors[i].Field]

FieldRank(f) == CASE f = "module_path" -> 1 [] f = "proxy_url" -> 2 [] f = "timeout" -> 3
                  [] OTHER -> 0

ErrorsOn(f) == {i \in 1..Len(vresp.Errors) : vresp.Errors[i].Field = f}

\* the module path Validate looks at: the string under the key, else the
\* environment
PathToValidate ==
    IF vreq.Config.module_path.t = "string" THEN vreq.Config.module_path.s ELSE vreq.Env

BadModulePath == PathToValidate = <<>> \/ validateModulePath(PathToValidate) # Nil

BadProxyURL ==
    /\ vreq.Config.proxy_url.t = "string" /\ vreq.Config.proxy_url.s # <<>>
    /\ validateProxyURL(vreq.Config.proxy_url.s) # Nil

BadTimeout ==
    \/ vreq.Config.timeout.t \in {"int", "float64"} /\ vreq.Config.timeout.n <= 0
    \/ vreq.Config.timeout.t = "bool"

\* the key module_path is missing, or holds the empty string or no string
NoModulePathInConfig ==
    \/ vreq.Config.module_path.t # "string"
    \/ vreq.Config.module_path.s = <<>>

\* the part of C18 that holds as stated: the errors of all fields come in
\* one result, in the order module_path, proxy_url, timeout, at most one for
\* each field, and valid is true exactly when there is none
AllFieldsReported ==
    /\ \A i \in 1..Len(vresp.Errors) : FieldRank(ErrorFields[i]) # 0
    /\ \A i, j \in 1..Len(vresp.Errors) :
          i < j => FieldRank(ErrorFields[i]) < FieldRank(ErrorFields[j])
    /\ (ErrorsOn("module_path") # {}) <=> BadModulePath
    /\ (ErrorsOn("proxy_url") # {}) <=> BadProxyURL
    /\ (ErrorsOn("timeout") # {}) <=> BadTimeout
    /\ (BadModulePath /\ BadProxyURL /\ BadTimeout) =>
          ErrorFields = <<"module_path", "proxy_url", "timeout">>
    /\ vresp.Valid <=> vresp.Errors = <<>>

\* C18 as stated: moreover a missing, empty or non-string module_path
\* always contributes exactly one error.
C18_Original ==
    pc = "Validated" =>
        /\ AllFieldsReported
        /\ NoModulePathInConfig => Cardinality(ErrorsOn("module_path")) = 1

\* C18 amended: Validate reports the errors of all fields in one result, in
\* the order module_path, proxy_url, timeout, at most one for each field, and
\* valid is true exactly when the list is empty; a missing, empty or
\* non-string module_path contributes exactly one error when GO_MODULE_PATH
\* is not set.
C18_AllFieldErrors ==
    pc = "Validated" =>
        /\ AllFieldsReported
        /\ (NoModulePathInConfig /\ vreq.Env = <<>>) =>
              /\ Cardinality(ErrorsOn("module_path")) = 1
              /\ vresp.Errors[1] = [Field |-> "module_path",
                                    Message |-> <<"Go module path is required">>]

C18_Witness ==
    /\ pc = "Validated" /\ ~vresp.Valid
    /\ ErrorFields = <<"module_path", "proxy_url", "timeout">>
    /\ NoModulePathInConfig /\ vreq.Env = <<>>

\* the raw timeout is an int or a float64 that is zero or negative
NumberNonPositive(v) == v.t \in {"int", "float64"} /\ v.n <= 0

\* what the resolver does with the timeout of the request
ResolverUsesDefault ==
    /\ InExecute =>
          ((req.Config.timeout.t = "absent" \/ NumberNonPositive(req.Config.timeout))
              => cfg.Timeout = 30)
    /\ (Returned /\ req.Hook = HookPostPublish /\ GatesOpen) => result.Success

\* C19 as stated: Validate reports an error on timeout for every timeout
\* value that is zero or negative, whatever type carries it, and none when
\* the key is absent; the resolver reports nothing and uses 30.
C19_Original ==
    /\ pc = "Validated" =>
          /\ NonPositive(vreq.Config.timeout) => ErrorsOn("timeout") # {}
          /\ vreq.Config.timeout.t = "absent" => ErrorsOn("timeout") = {}
    /\ ResolverUsesDefault

\* C19 amended: Validate reports an error on timeout for every timeout that
\* is an int or a float64 less than or equal to 0, and none when the key is
\* absent or holds a string; the resolver, given the same value, reports
\* nothing and uses 30.
C19_TimeoutValidation ==
    /\ pc = "Validated" =>
          /\ NumberNonPositive(vreq.Config.timeout) =>
                /\ Cardinality(ErrorsOn("timeout")) = 1
                /\ vresp.Errors[Len(vresp.Errors)] =
                      [Field |-> "timeout", Message |-> <<"timeout must be a positive integer">>]
                /\ ~vresp.Valid
          /\ vreq.Config.timeout.t \in {"absent", "string"} => ErrorsOn("timeout") = {}
    /\ ResolverUsesDefault

C19_Witness ==
    /\ pc = "Validated"
    /\ vreq.Config.timeout = FloatVal(-5)
    /\ ErrorFields = <<"timeout">>

\* C20: for a non-empty module path that violates a rule of the module-path
\* validator, Validate reports an error on module_path whose message is the
\* validator's, and a post-publish Execute fails with an error that carries
\* the same message and hands no request to the client; '../a.b/c' gives
\* "module path cannot contain '..'" in both.
C20_SameMessageInBoth ==
    /\ (pc = "Validated" /\ PathToValidate # <<>> /\ FirstViolation(PathToValidate) # Nil) =>
          /\ ~vresp.Valid
          /\ vresp.Errors[1] = [Field |-> "module_path",
                                Message |-> FirstViolation(PathToValidate)]
    /\ (/\ InExecute /\ req.Hook = HookPostPublish
        /\ cfg.ModulePath # <<>> /\ FirstViolation(cfg.ModulePath) # Nil) =>
          /\ sent = <<>>
          /\ Returned =>
                /\ ~result.Success
                /\ result.Error = <<"invalid module path: ">> \o FirstViolation(cfg.ModulePath)
    /\ (pc = "Validated" /\ PathToValidate = <<".", ".", "/", "a", ".", "b", "/", "c">>) =>
          vresp.Errors[1].Message = <<"module path cannot contain '..'">>
    /\ (Returned /\ req.Hook = HookPostPublish
            /\ cfg.ModulePath = <<".", ".", "/", "a", ".", "b", "/", "c">>) =>
          result.Error[2] = "module path cannot contain '..'"

C20_Witness ==
    /\ Returned /\ req.Hook = HookPostPublish /\ ~req.DryRun /\ ~cfg.Private
    /\ cfg.ModulePath = <<".", ".", "/", "a", ".", "b", "/", "c">>
    /\ result.Error = <<"invalid module path: ", "module path cannot contain '..'">>
    /\ sent = <<>>

(***************************************************************************)
(* C21: the redirect policy of the default client.                         *)
(***************************************************************************)
\* the redirects the client has followed inside the pending client.Do
RedirectsFollowed == Len(via) - 1

\* the client makes the next request, to the target of the redirect
RedirectFollowed == via' = Append(via, redirect) /\ resp' = None

\* client.Do returns an error that names the refusal
RedirectRefused ==
    /\ resp' # None
    /\ resp'.kind = "error"
    /\ resp'.cause = (IF Len(via) >= 3 THEN "too many redirects"
                      ELSE "redirect to non-HTTPS URL not allowed")

\* C21 as stated: the client follows up to 3 redirects; a redirect is followed
\* exactly when its target is https and fewer than 3 redirects were followed
\* before it, and is refused with an error otherwise.
C21_Original ==
    [][redirect # "" =>
         IF redirect = "https" /\ RedirectsFollowed < 3
         THEN RedirectFollowed
         ELSE RedirectRefused]_vars

\* C21: the default client follows at most 2 redirects, 3 requests in all; a
\* redirect is followed exactly when its target is https and fewer than 3
\* requests were made before it, and is refused with an error otherwise.
C21_RedirectPolicy ==
    [][/\ Len(via') <= 3
       /\ redirect # "" =>
            IF redirect = "https" /\ Len(via) < 3
            THEN RedirectFollowed
            ELSE RedirectRefused]_vars

\* two redirects were followed and a third, to an https target, is to be judged
C21_Witness == pc = "RequestSent" /\ Len(via) = 3 /\ redirect = "https"

(***************************************************************************)
(* Execute with the scheduling of the code: the goroutine of an invocation *)
(* keeps running, and client.Do returns (the request carries the caller's  *)
(* context and the client a timeout, plugin.go 44-45 and 292).             *)
(***************************************************************************)
\* the goroutine that runs postPublish leaves the statement it stands at
StageLeft ==
    /\ \/ pc \in {"ValidateModulePath", "Private", "ValidateProxyURL", "ResolveVersion", "DryRun",
                   "Notify", "URLBuilt", "Classified", "NotifyFailed"}
       \/ pc = "RequestSent" /\ resp # None
    /\ pc' \in {"Private", "ValidateProxyURL", "ResolveVersion", "DryRun", "Notify", "URLBuilt",
                "RequestSent", "Classified", "NotifyFailed", "Done"} \ {pc}

(***************************************************************************)
(* One plugin process serving one call after another, while other calls    *)
(* run in the same process at the same time.  Of what a call can see,      *)
(* another call reads httpClient and constructs a client of its own.       *)
(***************************************************************************)
MaxClients == 3

ProcessConfigs ==
    { GoodConfig,
      [GoodConfig EXCEPT !.timeout = IntVal(10)],
      [GoodConfig EXCEPT !.private = BoolVal(TRUE)],
      [GoodConfig EXCEPT !.proxy_url = StrVal(HttpsPrefix \o <<"1", "0", ".", "0", ".", "0", ".", "5">>)] }

ProcessExecuteCall ==
    /\ pc = "idle"
    /\ made < MaxClients
    /\ \E hook \in Hooks, config \in ProcessConfigs, ver \in Versions, dryRun \in BOOLEAN :
          Execute(hook, config, <<>>, ver, <<>>, dryRun)

ProcessValidateCall ==
    /\ pc = "idle"
    /\ \E config \in ProcessConfigs, e \in EnvValues : Validate(config, e)

\* the call has returned and the process waits for the next one
NextCall ==
    /\ pc \in {"Done", "Validated"}
    /\ pc' = "idle"
    /\ req' = None /\ env' = <<>> /\ cfg' = None /\ version' = <<>> /\ requestURL' = <<>>
    /\ sent' = <<>> /\ resp' = None /\ notifyErr' = Nil /\ result' = None /\ goErr' = Nil
    /\ vreq' = None /\ vresp' = None /\ vErr' = Nil
    /\ via' = <<>> /\ redirect' = "" /\ client' = None
    /\ UNCHANGED <<vIn, vOut, httpClient, made>>

\* a call running at the same time in the same process obtains its client
ConcurrentDispatch ==
    /\ pc # "idle"
    /\ made < MaxClients
    /\ made' = IF httpClient = None THEN made + 1 ELSE made
    /\ UNCHANGED <<pc, req, env, cfg, version, requestURL, sent, resp, notifyErr, result, goErr,
                   vreq, vresp, vErr, vIn, vOut, via, redirect, client, httpClient>>

ProcessNext ==
    \/ ProcessExecuteCall
    \/ ProcessValidateCall
    \/ ValidateModulePathStage
    \/ PrivateStage
    \/ ValidateProxyURLStage
    \/ ResolveVersionStage
    \/ DryRunStage
    \/ BuildURL
    \/ Dispatch
    \/ ClientDoRedirected
    \/ FollowRedirect
    \/ ClientDoReturns
    \/ ReceiveResponse
    \/ ReportOutcome
    \/ NextCall
    \/ ConcurrentDispatch
    \/ Finish

SpecProcess == Init /\ [][ProcessNext]_vars

(***************************************************************************)
(* Execute for the post-publish hook with a valid module path, over proxy  *)
(* URLs with a port, a userinfo, a query, a fragment or a path and over    *)
(* every version of at most MaxHostVersionLen characters of                *)
(* HostVersionAlphabet, the characters that delimit the parts of a URL.    *)
(***************************************************************************)
MaxHostVersionLen == 2

HostVersionAlphabet == {"1", "@", "/", "#", "?"}

HostVersions == UNION {[1..k -> HostVersionAlphabet] : k \in 1..MaxHostVersionLen}

HostProxyURLs ==
    { HttpsPrefix \o <<"p", ".", "i", "o">>,
      HttpsPrefix \o <<"p", ".", "i", "o", "/">>,
      HttpsPrefix \o <<"P", ".", "I", "O">>,
      HttpsPrefix \o <<"p", ".", "i", "o", ":", "4", "4", "3">>,
      HttpsPrefix \o <<"p", ".", "i", "o", ":">>,
      HttpsPrefix \o <<"u", "@", "p", ".", "i", "o">>,
      HttpsPrefix \o <<"u", ":", "w", "@", "p", ".", "i", "o">>,
      HttpsPrefix \o <<"p", ".", "i", "o", "?", "x">>,
      HttpsPrefix \o <<"p", ".", "i", "o", "#", "f">>,
      HttpsPrefix \o <<"p", ".", "i", "o", "/", "x", "/">>,
      HttpsPrefix \o <<"p", ".", "i", "o", "@">>,
      HttpsPrefix \o <<"[", "2", "0", "0", "1", ":", ":", "1", "]">> }

HostExecuteCall ==
    /\ pc = "idle"
    /\ \E p \in HostProxyURLs, ver \in HostVersions :
          Execute(HookPostPublish, [GoodConfig EXCEPT !.proxy_url = StrVal(p)], <<>>, ver, <<>>, FALSE)

HostNext ==
    \/ HostExecuteCall
    \/ ValidateModulePathStage
    \/ PrivateStage
    \/ ValidateProxyURLStage
    \/ ResolveVersionStage
    \/ DryRunStage
    \/ BuildURL
    \/ Dispatch
    \/ ClientDoRedirected
    \/ FollowRedirect
    \/ ClientDoReturns
    \/ ReceiveResponse
    \/ ReportOutcome
    \/ Finish

SpecHost == Init /\ [][HostNext]_vars

SpecFair ==
    /\ Init /\ [][Next]_vars
    /\ WF_pc(StageLeft) /\ WF_vars(FollowRedirect) /\ WF_vars(ClientDoReturns)

(***************************************************************************)
(* C22: cancellation or timeout while the proxy call is pending.           *)
(***************************************************************************)
ContextCauses == {"context canceled", "context deadline exceeded"}

\* client.Do has returned the error of the cancelled or expired context
ContextEnded == resp # None /\ resp.kind = "error" /\ resp.cause \in ContextCauses

NetworkFailure ==
    /\ ~result.Success
    /\ result.Error = <<"failed to notify proxy: ", "failed to send request: ", resp.cause>>
    /\ goErr = Nil

\* C22: when the context is cancelled or the timeout expires while the proxy
\* call is pending, the invocation comes to return, and what it returns is
\* never a success: it is success=false with the error "failed to notify
\* proxy: ..." that embeds the cause.
C22_CancelledCallFails ==
    /\ [](Returned /\ ContextEnded => NetworkFailure)
    /\ (pc = "RequestSent" /\ ContextEnded) ~> (Returned /\ ContextEnded /\ NetworkFailure)

C22_Witness == Returned /\ ContextEnded /\ resp.cause = "context deadline exceeded" /\ ~result.Success

(***************************************************************************)
(* C23: an invocation leaves nothing behind and depends on nothing left    *)
(* behind.                                                                 *)
(***************************************************************************)
\* what triggerProxyIndex returns for the answer rs of the proxy
NotifyErrAlone(c, v, rs) ==
    LET u == validateProxyURL(proxyRequestURL(c, v))
    IN  IF u # Nil THEN Text("invalid request URL: ") \o u
        ELSE IF rs.kind = "error" THEN Text("failed to send request: ") \o Text(rs.cause)
        ELSE IF ~rs.readOK THEN Text("failed to read response: ") \o Text("read error")
        ELSE classify(rs.StatusCode, rs.Body)

\* the result of Execute for request r in environment e in a process that has
\* served no other call, the proxy answering rs
ResultAlone(r, e, rs) ==
    LET c == parseConfig(r.Config, e)
        supplied == IF r.Version # <<>> THEN r.Version ELSE r.TagName
        v == normalize(supplied)
        outputs == [module_path |-> c.ModulePath, version |-> v, proxy_url |-> c.ProxyURL]
    IN  IF r.Hook # HookPostPublish
        THEN Response(TRUE, <<"Hook ", r.Hook, " not handled">>, <<>>, NoOutputs)
        ELSE IF validateModulePath(c.ModulePath) # Nil
        THEN Response(FALSE, <<>>, Text("invalid module path: ") \o validateModulePath(c.ModulePath),
                      NoOutputs)
        ELSE IF c.Private
        THEN Response(TRUE, Text("Skipping proxy notification for private module"), <<>>,
                      [module_path |-> c.ModulePath, private |-> TRUE, skipped |-> TRUE])
        ELSE IF validateProxyURL(c.ProxyURL) # Nil
        THEN Response(FALSE, <<>>, Text("invalid proxy URL: ") \o validateProxyURL(c.ProxyURL),
                      NoOutputs)
        ELSE IF supplied = <<>>
        THEN Response(FALSE, <<>>, Text("version is required for proxy notification"), NoOutputs)
        ELSE IF r.DryRun
        THEN Response(TRUE, Text("Would notify Go module proxy for ") \o c.ModulePath \o <<"@">> \o v,
                      <<>>, outputs)
        ELSE IF NotifyErrAlone(c, v, rs) # Nil
        THEN Response(FALSE, <<>>, Text("failed to notify proxy: ") \o NotifyErrAlone(c, v, rs),
                      NoOutputs)
        ELSE Response(TRUE, Text("Go module proxy notified for ") \o c.ModulePath \o <<"@">> \o v,
                      <<>>, outputs)

DecidingCheck ==
    IF validateModulePath(cfg.ModulePath) # Nil THEN "module path"
    ELSE IF cfg.Private THEN "private"
    ELSE IF validateProxyURL(cfg.ProxyURL) # Nil THEN "proxy URL"
    ELSE IF SuppliedVersion = <<>> THEN "version"
    ELSE IF req.DryRun THEN "dry run"
    ELSE "notify"

FailsWith(error) == ~result.Success /\ result.Error = error /\ result.Message = <<>>

\* C24: the first check that applies decides the result, whatever the later
\* ones would say: an invalid module path fails, else private succeeds as
\* skipped, else an invalid proxy URL fails with the validator's message and
\* no request URL is built, else a missing version fails, else a dry run
\* returns the "Would notify" report; none of them sends a request.
C24_FirstCheckDecides ==
    (Returned /\ req.Hook = HookPostPublish) =>
        /\ DecidingCheck = "module path" =>
              FailsWith(Text("invalid module path: ") \o validateModulePath(cfg.ModulePath))
        /\ DecidingCheck = "private" => IsSkipped /\ result.Error = <<>>
        /\ DecidingCheck = "proxy URL" =>
              /\ FailsWith(Text("invalid proxy URL: ") \o validateProxyURL(cfg.ProxyURL))
              /\ requestURL = <<>>
        /\ DecidingCheck = "version" => FailsWith(Text("version is required for proxy notification"))
        /\ DecidingCheck = "dry run" => IsWouldNotify /\ result.Error = <<>>
        /\ DecidingCheck # "notify" => sent = <<>> /\ requestURL = <<>> /\ resp = None

\* the proxy URL https://10.0.0.5 decides a dry run that has no version
C24_Witness ==
    /\ Returned /\ req.Hook = HookPostPublish
    /\ DecidingCheck = "proxy URL"
    /\ cfg.ProxyURL = HttpsPrefix \o <<"1", "0", ".", "0", ".", "0", ".", "5">>
    /\ req.DryRun /\ SuppliedVersion = <<>>
    /\ result.Error[1] = "invalid proxy URL: "

(***************************************************************************)
(* C25: the validator is applied to the base URL and to the composed URL.  *)
(***************************************************************************)
\* the URL triggerProxyIndex composes for the invocation
ComposedURL == proxyRequestURL(cfg, normalize(SuppliedVersion))

\* C25: every URL handed to the HTTP client passes validateProxyURL, and so
\* does the base proxy URL it was composed from; when the composed URL fails
\* the validator, the invocation fails with the validator's error under
\* "invalid request URL" and no request is sent.
C25_BothURLsValidated ==
    /\ InExecute =>
          \A i \in 1..Len(sent) :
              /\ validateProxyURL(sent[i].URL) = Nil
              /\ validateProxyURL(cfg.ProxyURL) = Nil
    /\ (InExecute /\ req.Hook = HookPostPublish /\ DecidingCheck = "notify"
            /\ validateProxyURL(ComposedURL) # Nil) => sent = <<>>
    /\ (Returned /\ req.Hook = HookPostPublish /\ DecidingCheck = "notify"
            /\ validateProxyURL(ComposedURL) # Nil) =>
          /\ FailsWith(<<"failed to notify proxy: ", "invalid request URL: ">>
                          \o validateProxyURL(ComposedURL))
          /\ resp = None

\* a valid base URL whose composed request URL is refused
C25_Witness ==
    /\ Returned /\ req.Hook = HookPostPublish /\ DecidingCheck = "notify"
    /\ validateProxyURL(cfg.ProxyURL) = Nil
    /\ validateProxyURL(requestURL) # Nil
    /\ result.Error[2] = "invalid request URL: "

(***************************************************************************)
(* C26: what of a received response decides the outcome.                   *)
(***************************************************************************)
\* client.Do returned a response
ResponseReceived == resp # None /\ resp.kind = "response"

\* C26 as stated: once a response has been received, success or failure is
\* decided by the status code alone, and a 200 response yields success
\* whatever its body is, a body that fails while being read included.
C26_Original ==
    (Returned /\ ResponseReceived) =>
        /\ result.Success = (resp.StatusCode < 400)
        /\ resp.StatusCode = 200 => result.Success

\* C26: once a response has been received and its body read, success or
\* failure is decided by the status code alone, and a 200 response yields
\* success whatever its body is; when the body fails while being read the
\* invocation fails with "failed to read response", whatever the status.
C26_StatusDecidesOnceBodyRead ==
    (Returned /\ ResponseReceived) =>
        IF resp.readOK
        THEN /\ result.Success = (resp.StatusCode < 400)
             /\ resp.StatusCode = 200 => result.Success /\ result.Error = <<>>
        ELSE /\ ~result.Success
             /\ result.Error[1] = "failed to notify proxy: "
             /\ result.Error[2] = "failed to read response: "

\* a 200 response whose body could not be read
C26_Witness ==
    /\ Returned /\ ResponseReceived
    /\ resp.StatusCode = 200 /\ ~resp.readOK
    /\ ~result.Success

(***************************************************************************)
(* C27: every Execute invocation ends, in one result.                      *)
(***************************************************************************)
\* the place of a stage in the order of section 4.4
StageRank(stage) ==
    CASE stage = "ValidateModulePath" -> 1
      [] stage = "Private" -> 2
      [] stage = "ValidateProxyURL" -> 3
      [] stage = "ResolveVersion" -> 4
      [] stage = "DryRun" -> 5
      [] stage = "Notify" -> 6
      [] stage = "URLBuilt" -> 7
      [] stage = "RequestSent" -> 8
      [] stage = "Classified" -> 9
      [] stage = "NotifyFailed" -> 9
      [] stage = "Done" -> 10

\* C27: every Execute invocation, whatever the hook and the inputs, comes to
\* return once client.Do has returned, and returns one result: a step of the
\* invocation that changes the stage moves to a later stage, the request is
\* handed to the client once at most, and the result is set when the
\* invocation returns and not changed afterwards.
C27_EndsInOneResult ==
    /\ [][(InExecute /\ pc' \notin {"idle", "Validated"}) =>
             /\ pc' # pc => StageRank(pc') > StageRank(pc)
             /\ Len(sent') <= 1
             /\ result # None => result' = result]_vars
    /\ [](InExecute => ((result # None) <=> Returned) /\ goErr = Nil)
    /\ InExecute ~> Returned

\* an invocation that went through every stage and returned
C27_Witness ==
    /\ Returned /\ Len(sent) = 1 /\ ResponseReceived
    /\ resp.StatusCode = 201 /\ result.Success

(***************************************************************************)
(* C28: reuse of the HTTP client and its transport.                        *)
(***************************************************************************)
\* C28: with no override installed, the process constructs one HTTP client
\* with its transport, and every invocation that sends a request uses it.
C28_ClientReused ==
    httpClient = None =>
        /\ made <= 1
        /\ client # None => client.id = 1

(***************************************************************************)
(* C29: what the verdict of Validate says about Execute.                   *)
(***************************************************************************)
\* what Validate returns for the raw config and the environment of the
\* Execute invocation in progress
Verdict == Build(validateErrors(req.Config, env))

VerdictFields == {Verdict.Errors[i].Field : i \in 1..Len(Verdict.Errors)}

\* Execute got past the module path gate and the proxy URL gate
PassesBothGates ==
    /\ validateModulePath(cfg.ModulePath) = Nil
    /\ validateProxyURL(cfg.ProxyURL) = Nil
    /\ result.Error = <<>> \/ result.Error[1] \notin {"invalid module path: ", "invalid proxy URL: "}

\* C29: when Validate reports the raw config valid, a post-publish Execute
\* on the same config and environment does not fail with "invalid module
\* path" or "invalid proxy URL"; when the only errors of Validate are on
\* timeout, Execute passes both gates as well and runs with timeout 30.
C29_ValidConfigPassesGates ==
    (Returned /\ req.Hook = HookPostPublish) =>
        /\ Verdict.Valid => PassesBothGates
        /\ VerdictFields = {"timeout"} => PassesBothGates /\ cfg.Timeout = 30

\* Validate objects to the timeout only, and Execute has run with 30
C29_Witness ==
    /\ Returned /\ req.Hook = HookPostPublish
    /\ VerdictFields = {"timeout"}
    /\ req.Config.timeout = FloatVal(-5)
    /\ cfg.Timeout = 30 /\ result.Success

(***************************************************************************)
(* C30: the request goes to the host of the configured proxy URL.          *)
(***************************************************************************)
\* url.Parse(u).Hostname()
HostnameOf(u) == Hostname(urlParse(u).host)

\* C30: for every config and version that reach the dispatch of the request,
\* the request URL parses, and its hostname is the hostname of the
\* configured proxy URL.
C30_SameHost ==
    (InExecute /\ sent # <<>>) =>
        /\ urlParse(sent[1].URL).ok
        /\ urlParse(cfg.ProxyURL).ok
        /\ HostnameOf(sent[1].URL) = HostnameOf(cfg.ProxyURL)
        /\ HostnameOf(sent[1].URL) = URLHostname(cfg.ProxyURL)

\* a request sent for a version that holds "@" to a proxy URL with a userinfo
C30_Witness ==
    /\ pc = "RequestSent" /\ Len(sent) = 1
    /\ cfg.ProxyURL = HttpsPrefix \o <<"u", "@", "p", ".", "i", "o">>
    /\ version = <<"v", "@", "1">>
    /\ HostnameOf(sent[1].URL) = <<"p", ".", "i", "o">>

====
